---- MODULE Spec2Model ----
(***************************************************************************)
(* ConnectionConfig: the connection profile / connection group store of    *)
(* the extension (src/src/connectionconfig/connectionconfig.ts).           *)
(*                                                                         *)
(* The settings backend holds two sections ("connections" and              *)
(* "connectionGroups"), each with a global, a workspace and a workspace    *)
(* folder layer.  A write (setConfiguration) is asynchronous: it is issued *)
(* by the caller, travels in `inflight`, and takes effect when it          *)
(* completes; the issuing task is suspended meanwhile.                     *)
(*                                                                         *)
(* QueryRunnerManager: the registry of query runners behind the query      *)
(* runner explorer (src/src/controllers/queryRunnerManager.ts), with the   *)
(* tree data provider that registerQueryRunnerExplorer subscribes to it.   *)
(***************************************************************************)
EXTENDS Integers, Sequences, FiniteSets, TLC

VARIABLES
    settings,     \* settings[section][layer]: the stored arrays
    guid,         \* number of identifiers Utils.generateGuid has handed out
    run,          \* which ConnectionConfig instance is live (1 = the first)
    initPc,       \* position of ConnectionConfig.initialize()
    initialized,  \* the Deferred `initialized` has been resolved
    resolveCalls, \* calls of initialized.resolve() on the live instance
    inflight,     \* settings writes issued and not yet completed (FIFO)
    calls,        \* the CRUD calls: operation, arguments, position, result
    hasDisplayedMissingIdError, \* _hasDisplayedMissingIdError
    log,          \* history: settings reads and writes, in program order
    atRunStart,   \* history: the settings when the live instance was built
    queryRunners,       \* QueryRunnerManager._queryRunners, in insertion order
    changeEvents,       \* history: calls of QueryRunnerManager._onDidChange.fire()
    explorerRegistered, \* registerQueryRunnerExplorer has run
    treeQueryRunners,   \* QueryRunnerTreeDataProvider._queryRunners
    managerCalls        \* history: the calls made on the QueryRunnerManager

queryRunnerVars == <<queryRunners, changeEvents, explorerRegistered, treeQueryRunners,
                     managerCalls>>

vars == <<settings, guid, run, initPc, initialized, resolveCalls, inflight,
          calls, hasDisplayedMissingIdError, log, atRunStart, queryRunnerVars>>

\* the QueryRunnerManager singleton before its first use, no explorer registered
NoQueryRunners ==
    /\ queryRunners = <<>>
    /\ changeEvents = 0
    /\ explorerRegistered = FALSE
    /\ treeQueryRunners = <<>>
    /\ managerCalls = <<>>

callVars == <<calls, hasDisplayedMissingIdError>>
instVars == <<run, initPc, initialized, resolveCalls, atRunStart>>

(***************************************************************************)
(* Bounds of the model                                                     *)
(***************************************************************************)
MaxStored == 2      \* records (groups + profiles) in the initial global store
MaxRuns == 2        \* ConnectionConfig instances built one after the other
MaxCalls == 2       \* CRUD calls issued in one behaviour
MaxTree == 4        \* records (groups + profiles) in a store removeGroup runs on

CallIds == 1..MaxCalls

(***************************************************************************)
(* Values                                                                  *)
(***************************************************************************)
RootGroupId == "ROOT_ID"
RootGroupName == "ROOT"
Undef == "undefined"          \* an absent property
Empty == ""                   \* the empty string: falsy, but not undefined
Falsy(x) == x \in {Undef, Empty}

Global == "global"
Workspace == "workspace"
WorkspaceFolder == "workspaceFolder"
Layers == {Global, Workspace, WorkspaceFolder}
connectionsArrayName == "connections"
connectionGroupsArrayName == "connectionGroups"
Sections == {connectionsArrayName, connectionGroupsArrayName}

Group(id, name, parentId) == [id |-> id, name |-> name, parentId |-> parentId]
Profile(id, groupId) ==
    [id |-> id, groupId |-> groupId, profileName |-> Undef,
     server |-> "srv", connectionString |-> Undef]

Range(s) == {s[i] : i \in DOMAIN s}
SelectIdx(s, Test(_)) == {i \in DOMAIN s : Test(s[i])}

\* Array.prototype.filter
Filter(s, Test(_)) == SelectSeq(s, Test)

\* Utils.generateGuid: the n-th identifier handed out; never a stored one
Guid(n) == "guid" \o ToString(n)

(***************************************************************************)
(* Config read/write                                                       *)
(***************************************************************************)
\* getArrayFromSettings: the global value, or the workspace value followed
\* by the workspace folder value (an unset value reads as the empty array)
getArrayFromSettings(configSection, location) ==
    IF location = Global
    THEN settings[configSection][Global]
    ELSE settings[configSection][Workspace] \o settings[configSection][WorkspaceFolder]

getConnectionsFromSettings(configLocation) ==
    getArrayFromSettings(connectionsArrayName, configLocation)

getGroupsFromSettings(configLocation) ==
    getArrayFromSettings(connectionGroupsArrayName, configLocation)

\* VscodeWrapper.setConfiguration as called by writeConnectionsToSettings and
\* writeConnectionGroupsToSettings: the write is issued, not yet applied
Write(by, section, value, configTarget) ==
    [by |-> by, section |-> section, target |-> configTarget, value |-> value]

LogEntry(by, ev, section, target) ==
    [run |-> run, by |-> by, ev |-> ev, section |-> section, target |-> target]

NotRoot(g) == g.id # RootGroupId

(***************************************************************************)
(* Initialization: the two repair passes                                   *)
(***************************************************************************)
\* a group named ROOT whose id is not the hard-coded one
IsLegacyRoot(g) == g.name = RootGroupName /\ g.id # RootGroupId

LegacyRootIds(groups) == {g.id : g \in {h \in Range(groups) : IsLegacyRoot(h)}}

\* mutants of RepairGroup: the generated id is not stored; an orphaned
\* parentId is left alone
RepairGroup_KeepsMissingId(group, legacyRootIds, validGroupIds, n) ==
    LET migrate == group.parentId \in legacyRootIds
        p1 == IF migrate THEN RootGroupId ELSE group.parentId
        orphan == ~Falsy(p1) /\ p1 \notin validGroupIds
        p2 == IF orphan THEN RootGroupId ELSE p1
        noId == Falsy(group.id)
        noParent == Falsy(p2)
    IN  [group |-> [group EXCEPT !.parentId = IF noParent THEN RootGroupId ELSE p2],
         madeChanges |-> migrate \/ orphan \/ noId \/ noParent,
         guid |-> IF noId THEN n + 1 ELSE n]

RepairGroup_NoOrphanRepair(group, legacyRootIds, validGroupIds, n) ==
    LET migrate == group.parentId \in legacyRootIds
        p1 == IF migrate THEN RootGroupId ELSE group.parentId
        noId == Falsy(group.id)
        noParent == Falsy(p1)
    IN  [group |-> [group EXCEPT !.id = IF noId THEN Guid(n + 1) ELSE @,
                                 !.parentId = IF noParent THEN RootGroupId ELSE p1],
         madeChanges |-> migrate \/ noId \/ noParent,
         guid |-> IF noId THEN n + 1 ELSE n]

\* one iteration of the loop of assignConnectionGroupMissingIds; n is the
\* number of identifiers generated so far
RepairGroup(group, legacyRootIds, validGroupIds, n) ==
    LET migrate == group.parentId \in legacyRootIds
        p1 == IF migrate THEN RootGroupId ELSE group.parentId
        orphan == ~Falsy(p1) /\ p1 \notin validGroupIds
        p2 == IF orphan THEN RootGroupId ELSE p1
        noId == Falsy(group.id)
        noParent == Falsy(p2)
    IN  [group |-> [group EXCEPT !.id = IF noId THEN Guid(n + 1) ELSE @,
                                 !.parentId = IF noParent THEN RootGroupId ELSE p2],
         madeChanges |-> migrate \/ orphan \/ noId \/ noParent,
         guid |-> IF noId THEN n + 1 ELSE n]

RECURSIVE RepairGroups(_, _, _, _)
\* the loop of assignConnectionGroupMissingIds over groups, from the state acc
RepairGroups(groups, legacyRootIds, validGroupIds, acc) ==
    IF groups = <<>> THEN acc
    ELSE LET r == RepairGroup(Head(groups), legacyRootIds, validGroupIds, acc.guid)
         IN  RepairGroups(Tail(groups), legacyRootIds, validGroupIds,
                          [groups |-> Append(acc.groups, r.group),
                           madeChanges |-> acc.madeChanges \/ r.madeChanges,
                           guid |-> r.guid])

\* mutant of GroupPass: the groups are written whether or not one changed
GroupPass_AlwaysWrites ==
    LET groups == Filter(getGroupsFromSettings(Global), NotRoot)
        legacyRootIds == LegacyRootIds(getGroupsFromSettings(Global))
        validGroupIds == {RootGroupId} \cup {g.id : g \in Range(groups)}
    IN  [RepairGroups(groups, legacyRootIds, validGroupIds,
                      [groups |-> <<>>, madeChanges |-> FALSE, guid |-> guid])
         EXCEPT !.madeChanges = TRUE]

\* the synchronous part of assignConnectionGroupMissingIds: what it would
\* write, and whether it writes
GroupPass ==
    LET groups == Filter(getGroupsFromSettings(Global), NotRoot)
        legacyRootIds == LegacyRootIds(getGroupsFromSettings(Global))
        allGroups == Filter(getGroupsFromSettings(Global), NotRoot)
        validGroupIds == {RootGroupId} \cup {g.id : g \in Range(allGroups)}
    IN  RepairGroups(groups, legacyRootIds, validGroupIds,
                     [groups |-> <<>>, madeChanges |-> FALSE, guid |-> guid])

\* mutant of populateMissingConnectionIds: a back-filled groupId is not
\* reported as a modification
populateMissingConnectionIds_ReportsIdOnly(profile, n) ==
    LET noGroup == profile.groupId = Undef
        noId == profile.id = Undef
    IN  [profile |-> [profile EXCEPT !.groupId = IF noGroup THEN RootGroupId ELSE @,
                                     !.id = IF noId THEN Guid(n + 1) ELSE @],
         modified |-> noId,
         guid |-> IF noId THEN n + 1 ELSE n]

\* populateMissingConnectionIds (ConnectionProfile.addIdIfMissing generates
\* the id of a profile whose id is undefined)
populateMissingConnectionIds(profile, n) ==
    LET noGroup == profile.groupId = Undef
        noId == profile.id = Undef
    IN  [profile |-> [profile EXCEPT !.groupId = IF noGroup THEN RootGroupId ELSE @,
                                     !.id = IF noId THEN Guid(n + 1) ELSE @],
         modified |-> noGroup \/ noId,
         guid |-> IF noId THEN n + 1 ELSE n]

\* mutant of RepairProfile: a groupId naming a legacy root is not migrated
RepairProfile_NoMigration(profile, legacyRootIds, validGroupIds, n) ==
    LET orphan == ~Falsy(profile.groupId) /\ profile.groupId \notin validGroupIds
        g2 == IF orphan THEN RootGroupId ELSE profile.groupId
        r == populateMissingConnectionIds([profile EXCEPT !.groupId = g2], n)
    IN  [profile |-> r.profile,
         madeChanges |-> orphan \/ r.modified,
         guid |-> r.guid]

\* one iteration of the loop of assignConnectionMissingIds
RepairProfile(profile, legacyRootIds, validGroupIds, n) ==
    LET migrate == profile.groupId \in legacyRootIds
        g1 == IF migrate THEN RootGroupId ELSE profile.groupId
        orphan == ~Falsy(g1) /\ g1 \notin validGroupIds
        g2 == IF orphan THEN RootGroupId ELSE g1
        r == populateMissingConnectionIds([profile EXCEPT !.groupId = g2], n)
    IN  [profile |-> r.profile,
         madeChanges |-> migrate \/ orphan \/ r.modified,
         guid |-> r.guid]

RECURSIVE RepairProfiles(_, _, _, _)
RepairProfiles(profiles, legacyRootIds, validGroupIds, acc) ==
    IF profiles = <<>> THEN acc
    ELSE LET r == RepairProfile(Head(profiles), legacyRootIds, validGroupIds, acc.guid)
         IN  RepairProfiles(Tail(profiles), legacyRootIds, validGroupIds,
                            [profiles |-> Append(acc.profiles, r.profile),
                             madeChanges |-> acc.madeChanges \/ r.madeChanges,
                             guid |-> r.guid])

\* the synchronous part of assignConnectionMissingIds
ProfilePass ==
    LET profiles == getConnectionsFromSettings(Global)
        legacyRootIds == LegacyRootIds(getGroupsFromSettings(Global))
        validGroupIds == {RootGroupId} \cup {p.groupId : p \in Range(profiles)}
    IN  RepairProfiles(profiles, legacyRootIds, validGroupIds,
                       [profiles |-> <<>>, madeChanges |-> FALSE, guid |-> guid])

\* initialize(), up to its first suspension: the group pass reads, repairs
\* and, if it changed anything, issues the write of all groups
assignConnectionGroupMissingIds ==
    /\ initPc = "groupPass"
    /\ LET r == GroupPass
       IN  /\ guid' = r.guid
           /\ IF r.madeChanges
              THEN /\ inflight' = Append(inflight,
                        Write("init", connectionGroupsArrayName, r.groups, Global))
                   /\ log' = log \o
                        <<LogEntry("init", "read", connectionGroupsArrayName, Global),
                          LogEntry("init", "write", connectionGroupsArrayName, Global)>>
                   /\ initPc' = "groupWrite"
              ELSE /\ log' = Append(log,
                        LogEntry("init", "read", connectionGroupsArrayName, Global))
                   /\ initPc' = "connPass"
                   /\ UNCHANGED inflight
    /\ UNCHANGED <<settings, run, initialized, resolveCalls, callVars, atRunStart,
                   queryRunnerVars>>

\* initialize() resumed after the group pass: the profile pass
assignConnectionMissingIds ==
    /\ initPc = "connPass"
    /\ LET r == ProfilePass
       IN  /\ guid' = r.guid
           /\ IF r.madeChanges
              THEN /\ inflight' = Append(inflight,
                        Write("init", connectionsArrayName, r.profiles, Global))
                   /\ log' = log \o
                        <<LogEntry("init", "read", connectionsArrayName, Global),
                          LogEntry("init", "write", connectionsArrayName, Global)>>
                   /\ initPc' = "connWrite"
              ELSE /\ log' = Append(log,
                        LogEntry("init", "read", connectionsArrayName, Global))
                   /\ initPc' = "resolve"
                   /\ UNCHANGED inflight
    /\ UNCHANGED <<settings, run, initialized, resolveCalls, callVars, atRunStart,
                   queryRunnerVars>>

\* initialize() resumed after the profile pass: this.initialized.resolve()
ResolveInitialized ==
    /\ initPc = "resolve"
    /\ initPc' = "done"
    /\ initialized' = TRUE
    /\ resolveCalls' = resolveCalls + 1
    /\ log' = Append(log, LogEntry("init", "resolve", "-", "-"))
    /\ UNCHANGED <<settings, guid, run, inflight, callVars, atRunStart, queryRunnerVars>>

\* where initialize() resumes when its write has completed
InitAfterWrite == IF initPc = "groupWrite" THEN "connPass" ELSE "resolve"

\* the oldest write in flight, issued by initialize(), takes effect
InitWriteCompletes ==
    /\ inflight # <<>>
    /\ Head(inflight).by = "init"
    /\ LET w == Head(inflight)
       IN  settings' = [settings EXCEPT ![w.section][w.target] = w.value]
    /\ inflight' = Tail(inflight)
    /\ initPc' = InitAfterWrite
    /\ log' = Append(log, LogEntry("init", "written",
                                   Head(inflight).section, Head(inflight).target))
    /\ UNCHANGED <<guid, run, initialized, resolveCalls, callVars, atRunStart,
                   queryRunnerVars>>

\* a call slot not in use, and the name a call's reads and writes carry
IdleCall == [op |-> "none", pc |-> "idle", arg |-> [none |-> TRUE],
             loc |-> [none |-> TRUE], result |-> "-", early |-> FALSE]
CallName(c) == "call" \o ToString(c)
Settled(c) == calls[c].pc \in {"idle", "returned", "rejected"}

\* a later ConnectionConfig is constructed on the same settings (the
\* constructor calls initialize())
NewInstance ==
    /\ initPc = "done"
    /\ run < MaxRuns
    /\ inflight = <<>>
    /\ \A c \in CallIds : Settled(c)
    /\ run' = run + 1
    /\ initPc' = "groupPass"
    /\ initialized' = FALSE
    /\ resolveCalls' = 0
    /\ hasDisplayedMissingIdError' = FALSE
    /\ atRunStart' = settings
    /\ UNCHANGED <<settings, guid, inflight, calls, log, queryRunnerVars>>

(***************************************************************************)
(* Calls of the CRUD methods.  A call runs from one suspension point to    *)
(* the next in one step; calls[c].pc is where it is suspended.             *)
(***************************************************************************)
\* the instance exists: its constructor, which runs initialize() up to the
\* first suspension, has returned
Constructed == initPc # "groupPass"

\* call c has not been made; the calls are numbered in the order they are made
NotYetCalled(c) ==
    /\ calls[c].pc = "idle"
    /\ \A d \in CallIds : d < c => calls[d].pc # "idle"

\* mutant of InitGateOpen: the call does not wait for `initialized`
InitGateOpen_NoWait == TRUE

\* `await this.initialized` lets the call continue
InitGateOpen == initialized

CallLog(c, ev, section, target) == LogEntry(CallName(c), ev, section, target)

\* `early` keeps whether the call was made before `initialized` resolved
Start(c, op, arg) == [op |-> op, pc |-> "awaitInit", arg |-> arg,
                      loc |-> [none |-> TRUE], result |-> "-",
                      early |-> ~initialized]
Return(call, result) == [call EXCEPT !.pc = "returned", !.result = result]
Reject(call, error) == [call EXCEPT !.pc = "rejected", !.result = error]

\* the oldest write in flight, issued by call c, takes effect and the call
\* is resumed after its await
AfterWrite(call) ==
    CASE call.pc = "connsWrite" -> [call EXCEPT !.pc = "connsWritten"]
      [] call.pc = "groupsWrite" -> Return(call, "true")
      [] call.pc = "removedWrite" -> Return(call, "true")
      [] OTHER -> Return(call, "void")

CallWriteCompletes(c) ==
    /\ inflight # <<>>
    /\ Head(inflight).by = CallName(c)
    /\ LET w == Head(inflight)
       IN  /\ settings' = [settings EXCEPT ![w.section][w.target] = w.value]
           /\ log' = Append(log, CallLog(c, "written", w.section, w.target))
    /\ inflight' = Tail(inflight)
    /\ calls' = [calls EXCEPT ![c] = AfterWrite(@)]
    /\ UNCHANGED <<guid, instVars, hasDisplayedMissingIdError, queryRunnerVars>>

(***************************************************************************)
(* Connection groups                                                       *)
(***************************************************************************)
getRootGroup == Group(RootGroupId, RootGroupName, Undef)

\* mutant of GetGroupsResult: a persisted ROOT-id entry is returned too
GetGroupsResult_KeepsRoot(location) ==
    <<getRootGroup>> \o getGroupsFromSettings(location)

\* what getGroups returns once it is past `await this.initialized`
GetGroupsResult(location) ==
    <<getRootGroup>> \o Filter(getGroupsFromSettings(location), NotRoot)

getGroups(c, location) ==
    /\ Constructed
    /\ NotYetCalled(c)
    /\ calls' = [calls EXCEPT ![c] = Start(c, "getGroups", [location |-> location])]
    /\ UNCHANGED <<settings, inflight, guid, instVars, hasDisplayedMissingIdError, log,
                   queryRunnerVars>>

\* mutant of getGroupsResume: the list without the persisted ROOT-id entry
\* is written back
getGroupsResume_WritesBack(c) ==
    /\ calls[c].op = "getGroups"
    /\ calls[c].pc = "awaitInit"
    /\ InitGateOpen
    /\ calls' = [calls EXCEPT ![c] = Return(@, GetGroupsResult(@.arg.location))]
    /\ log' = Append(log, CallLog(c, "read", connectionGroupsArrayName,
                                  calls[c].arg.location))
    /\ inflight' = Append(inflight,
          Write(CallName(c), connectionGroupsArrayName,
                Filter(getGroupsFromSettings(Global), NotRoot), Global))
    /\ UNCHANGED <<settings, guid, instVars, hasDisplayedMissingIdError, queryRunnerVars>>

\* getGroups resumed after `await this.initialized`
getGroupsResume(c) ==
    /\ calls[c].op = "getGroups"
    /\ calls[c].pc = "awaitInit"
    /\ InitGateOpen
    /\ calls' = [calls EXCEPT ![c] = Return(@, GetGroupsResult(@.arg.location))]
    /\ log' = Append(log, CallLog(c, "read", connectionGroupsArrayName,
                                  calls[c].arg.location))
    /\ UNCHANGED <<settings, inflight, guid, instVars, hasDisplayedMissingIdError,
                   queryRunnerVars>>

\* mutant of ConfigTargetOf: every scope is written to the global layer
ConfigTargetOf_AlwaysGlobal(scope) == Global

\* configTarget of addConnection and addGroup
ConfigTargetOf(scope) == IF scope = "user" THEN Global ELSE Workspace

\* mutant of AddGroupPlan: a persisted ROOT-id entry is written back
AddGroupPlan_KeepsRoot(group, scope, n) ==
    LET noId == Falsy(group.id)
        g == [group EXCEPT !.id = IF noId THEN Guid(n + 1) ELSE @,
                           !.parentId = IF Falsy(@) THEN RootGroupId ELSE @]
    IN  [skip |-> group.id = RootGroupId,
         groups |-> Append(getGroupsFromSettings(ConfigTargetOf(scope)), g),
         guid |-> IF noId THEN n + 1 ELSE n]

\* addGroup: the group as stored, and the array written
AddGroupPlan(group, scope, n) ==
    LET noId == Falsy(group.id)
        g == [group EXCEPT !.id = IF noId THEN Guid(n + 1) ELSE @,
                           !.parentId = IF Falsy(@) THEN RootGroupId ELSE @]
        groups == Filter(getGroupsFromSettings(ConfigTargetOf(scope)), NotRoot)
    IN  [skip |-> group.id = RootGroupId,
         groups |-> Append(groups, g),
         guid |-> IF noId THEN n + 1 ELSE n]

\* addGroup (it does not await `initialized`); loc keeps the group as
\* back-filled and the groups as read
addGroup(c, group, scope) ==
    /\ Constructed
    /\ NotYetCalled(c)
    /\ LET plan == AddGroupPlan(group, scope, guid)
           call == [Start(c, "addGroup", [group |-> group, scope |-> scope])
                        EXCEPT !.pc = "writing",
                               !.loc = [group |-> plan.groups[Len(plan.groups)],
                                        read |-> getGroupsFromSettings(
                                                     ConfigTargetOf(scope))]]
       IN  IF plan.skip
           THEN /\ calls' = [calls EXCEPT ![c] = Return(call, "void")]
                /\ UNCHANGED <<inflight, guid, log>>
           ELSE /\ calls' = [calls EXCEPT ![c] = call]
                /\ guid' = plan.guid
                /\ inflight' = Append(inflight,
                      Write(CallName(c), connectionGroupsArrayName, plan.groups,
                            ConfigTargetOf(scope)))
                /\ log' = log \o
                      <<CallLog(c, "read", connectionGroupsArrayName, ConfigTargetOf(scope)),
                        CallLog(c, "write", connectionGroupsArrayName, ConfigTargetOf(scope))>>
    /\ UNCHANGED <<settings, instVars, hasDisplayedMissingIdError, queryRunnerVars>>

\* the recursion of getAllSubgroupIds has no end on a parentId cycle: the
\* call stack overflows (RangeError).  No chain of distinct groups is deeper
\* than the number of groups, so a deeper recursion is on a cycle.
StackOverflow == "RangeError: Maximum call stack size exceeded"

RECURSIVE getAllSubgroupIds(_, _, _)
getAllSubgroupIds(groupId, groups, depth) ==
    IF depth > Len(groups) + 1
    THEN {StackOverflow}
    ELSE {groupId} \cup
         UNION {getAllSubgroupIds(groups[i].id, groups, depth + 1) :
                    i \in {k \in DOMAIN groups : groups[k].parentId = groupId}}

\* mutant of MoveToRoot: the record is left where it is
MoveToRoot_Never(rec, field, id) == rec

\* a connection or group directly in the removed group is re-pointed to ROOT
MoveToRoot(rec, field, id) ==
    IF rec[field] = id THEN [rec EXCEPT ![field] = RootGroupId] ELSE rec

\* mutant of RemoveGroupPlan: the ROOT group is not protected
RemoveGroupPlan_NoRootGuard(id, contentAction) ==
    LET connections == getConnectionsFromSettings(Global)
        groups == getGroupsFromSettings(Global)
        groupsToRemove == getAllSubgroupIds(id, groups, 1)
        remainingGroups ==
            SelectSeq(groups, LAMBDA g : g.id \notin groupsToRemove /\ g.id # RootGroupId)
    IN  [outcome |-> IF Len(remainingGroups) = Len(groups) THEN "false" ELSE "write",
         connectionModified |-> \E conn \in Range(connections) : conn.groupId \in groupsToRemove,
         remainingConnections |->
            SelectSeq(connections, LAMBDA conn : conn.groupId \notin groupsToRemove),
         remainingGroups |-> remainingGroups]

\* mutant of RemoveGroupPlan: "delete" removes only the direct children
RemoveGroupPlan_OneLevel(id, contentAction) ==
    LET connections == getConnectionsFromSettings(Global)
        groups == getGroupsFromSettings(Global)
        groupsToRemove == {id} \cup {g.id : g \in {h \in Range(groups) : h.parentId = id}}
        remainingGroups ==
            SelectSeq(groups, LAMBDA g : g.id \notin groupsToRemove /\ g.id # RootGroupId)
    IN  [outcome |-> IF id = RootGroupId \/ Len(remainingGroups) = Len(groups)
                     THEN "false" ELSE "write",
         connectionModified |-> \E conn \in Range(connections) : conn.groupId \in groupsToRemove,
         remainingConnections |->
            SelectSeq(connections, LAMBDA conn : conn.groupId \notin groupsToRemove),
         remainingGroups |-> remainingGroups]

\* mutant of RemoveGroupPlan: "move" also re-points the grandchildren
RemoveGroupPlan_MovesAll(id, contentAction) ==
    LET connections == getConnectionsFromSettings(Global)
        groups == getGroupsFromSettings(Global)
        kept == SelectSeq(groups, LAMBDA g : g.id # id /\ g.id # RootGroupId)
    IN  [outcome |-> IF id = RootGroupId \/ Len(kept) = Len(groups)
                     THEN "false" ELSE "write",
         connectionModified |-> \E conn \in Range(connections) : conn.groupId = id,
         remainingConnections |->
            [k \in DOMAIN connections |-> MoveToRoot(connections[k], "groupId", id)],
         remainingGroups |->
            [k \in DOMAIN kept |-> [kept[k] EXCEPT !.parentId = RootGroupId]]]

\* mutant of RemoveGroupPlan: the connections are written whether or not one
\* was modified
RemoveGroupPlan_AlwaysWritesConnections(id, contentAction) ==
    LET connections == getConnectionsFromSettings(Global)
        groups == getGroupsFromSettings(Global)
        none == [outcome |-> "false", connectionModified |-> FALSE,
                 remainingConnections |-> connections, remainingGroups |-> groups]
    IN  IF id = RootGroupId THEN none
        ELSE IF contentAction = "delete"
        THEN LET groupsToRemove == getAllSubgroupIds(id, groups, 1)
                 remainingGroups ==
                    SelectSeq(groups, LAMBDA g : g.id \notin groupsToRemove
                                                 /\ g.id # RootGroupId)
             IN  IF StackOverflow \in groupsToRemove
                 THEN [none EXCEPT !.outcome = "throw"]
                 ELSE [outcome |-> IF Len(remainingGroups) = Len(groups)
                                   THEN "false" ELSE "write",
                       connectionModified |-> TRUE,
                       remainingConnections |->
                          SelectSeq(connections,
                                    LAMBDA conn : conn.groupId \notin groupsToRemove),
                       remainingGroups |-> remainingGroups]
        ELSE LET kept == SelectSeq(groups, LAMBDA g : g.id # id /\ g.id # RootGroupId)
             IN  [outcome |-> IF Len(kept) = Len(groups) THEN "false" ELSE "write",
                  connectionModified |-> TRUE,
                  remainingConnections |->
                     [k \in DOMAIN connections |->
                         MoveToRoot(connections[k], "groupId", id)],
                  remainingGroups |->
                     [k \in DOMAIN kept |-> MoveToRoot(kept[k], "parentId", id)]]

\* the synchronous part of removeGroup: whether it returns false, throws or
\* writes, and the arrays it writes
RemoveGroupPlan(id, contentAction) ==
    LET connections == getConnectionsFromSettings(Global)
        groups == getGroupsFromSettings(Global)
        none == [outcome |-> "false", connectionModified |-> FALSE,
                 remainingConnections |-> connections, remainingGroups |-> groups]
    IN  IF id = RootGroupId THEN none
        ELSE IF contentAction = "delete"
        THEN LET groupsToRemove == getAllSubgroupIds(id, groups, 1)
                 remainingGroups ==
                    SelectSeq(groups, LAMBDA g : g.id \notin groupsToRemove
                                                 /\ g.id # RootGroupId)
             IN  IF StackOverflow \in groupsToRemove
                 THEN [none EXCEPT !.outcome = "throw"]
                 ELSE [outcome |-> IF Len(remainingGroups) = Len(groups)
                                   THEN "false" ELSE "write",
                       connectionModified |->
                          \E conn \in Range(connections) : conn.groupId \in groupsToRemove,
                       remainingConnections |->
                          SelectSeq(connections,
                                    LAMBDA conn : conn.groupId \notin groupsToRemove),
                       remainingGroups |-> remainingGroups]
        ELSE LET kept == SelectSeq(groups, LAMBDA g : g.id # id /\ g.id # RootGroupId)
             IN  [outcome |-> IF Len(kept) = Len(groups) THEN "false" ELSE "write",
                  connectionModified |->
                     \E conn \in Range(connections) : conn.groupId = id,
                  remainingConnections |->
                     [k \in DOMAIN connections |->
                         MoveToRoot(connections[k], "groupId", id)],
                  remainingGroups |->
                     [k \in DOMAIN kept |-> MoveToRoot(kept[k], "parentId", id)]]

\* removeGroup up to its first suspension (it does not await `initialized`)
removeGroup(c, id, contentAction) ==
    /\ Constructed
    /\ NotYetCalled(c)
    /\ LET plan == RemoveGroupPlan(id, contentAction)
           call == [Start(c, "removeGroup", [id |-> id, contentAction |-> contentAction])
                        EXCEPT !.loc = plan @@
                                   [connections |-> getConnectionsFromSettings(Global),
                                    groups |-> getGroupsFromSettings(Global)]]
           reads == <<CallLog(c, "read", connectionsArrayName, Global),
                      CallLog(c, "read", connectionGroupsArrayName, Global)>>
       IN  CASE plan.outcome = "false" ->
                  /\ calls' = [calls EXCEPT ![c] = Return(call, "false")]
                  /\ log' = log \o reads
                  /\ UNCHANGED inflight
             [] plan.outcome = "throw" ->
                  /\ calls' = [calls EXCEPT ![c] = Reject(call, StackOverflow)]
                  /\ log' = log \o reads
                  /\ UNCHANGED inflight
             [] plan.outcome = "write" /\ plan.connectionModified ->
                  /\ calls' = [calls EXCEPT ![c] = [call EXCEPT !.pc = "connsWrite"]]
                  /\ inflight' = Append(inflight,
                        Write(CallName(c), connectionsArrayName,
                              plan.remainingConnections, Global))
                  /\ log' = log \o reads \o
                        <<CallLog(c, "write", connectionsArrayName, Global)>>
             [] OTHER ->
                  /\ calls' = [calls EXCEPT ![c] = [call EXCEPT !.pc = "groupsWrite"]]
                  /\ inflight' = Append(inflight,
                        Write(CallName(c), connectionGroupsArrayName,
                              plan.remainingGroups, Global))
                  /\ log' = log \o reads \o
                        <<CallLog(c, "write", connectionGroupsArrayName, Global)>>
    /\ UNCHANGED <<settings, guid, instVars, hasDisplayedMissingIdError, queryRunnerVars>>

\* removeGroup resumed after the write of the connections: it writes the groups
removeGroupWriteGroups(c) ==
    /\ calls[c].op = "removeGroup"
    /\ calls[c].pc = "connsWritten"
    /\ calls' = [calls EXCEPT ![c].pc = "groupsWrite"]
    /\ inflight' = Append(inflight,
          Write(CallName(c), connectionGroupsArrayName,
                calls[c].loc.remainingGroups, Global))
    /\ log' = Append(log, CallLog(c, "write", connectionGroupsArrayName, Global))
    /\ UNCHANGED <<settings, guid, instVars, hasDisplayedMissingIdError, queryRunnerVars>>

(***************************************************************************)
(* The stores the repair passes are run on                                 *)
(***************************************************************************)
\* a stored group: without id, a persisted ROOT-id entry, a plain group, or
\* a legacy root (named ROOT under another id, "L" or the empty string)
NameOfStored(id) == IF id \in {RootGroupId, "L", Empty} THEN RootGroupName ELSE "grp"
StoredGroups ==
    {Group(id, NameOfStored(id), parentId) :
        id \in {Undef, Empty, RootGroupId, "A", "L"},
        parentId \in {Undef, Empty, RootGroupId, "A", "L", "X"}}
StoredProfiles ==
    {Profile(id, groupId) :
        id \in {Undef, "c1"},
        groupId \in {Undef, Empty, RootGroupId, "A", "L", "X"}}

SeqsUpTo(S, n) == UNION {[1..k -> S] : k \in 0..n}

MkSettings(gGroups, gConns, wGroups, wConns, fGroups, fConns) ==
    [s \in Sections |->
        IF s = connectionGroupsArrayName
        THEN [l \in Layers |-> CASE l = Global -> gGroups
                                 [] l = Workspace -> wGroups
                                 [] OTHER -> fGroups]
        ELSE [l \in Layers |-> CASE l = Global -> gConns
                                 [] l = Workspace -> wConns
                                 [] OTHER -> fConns]]

InitRepair ==
    /\ \E ng \in 0..MaxStored :
         \E gGroups \in [1..ng -> StoredGroups] :
           \E gConns \in SeqsUpTo(StoredProfiles, MaxStored - ng) :
             settings = MkSettings(gGroups, gConns,
                                   <<Group("W", "grp", "X")>>, <<Profile(Undef, "X")>>,
                                   <<>>, <<>>)
    /\ guid = 0
    /\ run = 1
    /\ initPc = "groupPass"
    /\ initialized = FALSE
    /\ resolveCalls = 0
    /\ inflight = <<>>
    /\ calls = [c \in CallIds |-> IdleCall]
    /\ hasDisplayedMissingIdError = FALSE
    /\ log = <<>>
    /\ atRunStart = settings
    /\ NoQueryRunners

NextRepair ==
    \/ assignConnectionGroupMissingIds
    \/ assignConnectionMissingIds
    \/ InitWriteCompletes
    \/ ResolveInitialized
    \/ NewInstance

SpecRepair == InitRepair /\ [][NextRepair]_vars

(***************************************************************************)
(* Connection profiles                                                     *)
(***************************************************************************)
SampleServerName == "{{put-server-name-here}}"

\* the name compareConnectionProfile sorts by
SortName(conn) ==
    IF ~Falsy(conn.profileName) THEN conn.profileName
    ELSE IF ~Falsy(conn.server) THEN conn.server
    ELSE conn.connectionString

\* String.prototype.localeCompare on the names of the model, in collation
\* order; an undefined argument is compared as the string "undefined"
LocaleOrder == <<Empty, SampleServerName, "alpha", "beta", "cs", "srv", Undef>>
LocaleRank(name) == CHOOSE k \in DOMAIN LocaleOrder : LocaleOrder[k] = name
compareConnectionProfile(connA, connB) ==
    LocaleRank(SortName(connA)) - LocaleRank(SortName(connB))

\* Array.prototype.sort hands every element but the first to the comparator
\* as connA; an undefined name there makes nameA.localeCompare throw
SortThrows(profiles) ==
    \E k \in DOMAIN profiles : k > 1 /\ SortName(profiles[k]) = Undef

RECURSIVE InsertSorted(_, _)
\* conn put behind the elements of the sorted list that do not sort after it
InsertSorted(sorted, conn) ==
    IF sorted = <<>> THEN <<conn>>
    ELSE IF compareConnectionProfile(conn, Head(sorted)) < 0
         THEN <<conn>> \o sorted
         ELSE <<Head(sorted)>> \o InsertSorted(Tail(sorted), conn)

\* mutant of SortProfiles: the profiles are left in stored order
SortProfiles_StoredOrder(profiles) == profiles

RECURSIVE SortProfiles(_)
\* profiles.sort(this.compareConnectionProfile): a stable sort
SortProfiles(profiles) ==
    IF profiles = <<>> THEN <<>>
    ELSE InsertSorted(SortProfiles(SubSeq(profiles, 1, Len(profiles) - 1)),
                      profiles[Len(profiles)])

HasConnectionInfo(conn) ==
    \/ ~Falsy(conn.connectionString)
    \/ (~Falsy(conn.server) /\ conn.server # SampleServerName)

\* mutant of GetConnectionsPlan: the missing-id error is shown on every call
GetConnectionsPlan_AlwaysShows(alsoGetFromWorkspace) ==
    LET userProfiles == getConnectionsFromSettings(Global)
        workspaceProfiles == getConnectionsFromSettings(Workspace)
        missingIdConns == SelectSeq(workspaceProfiles, LAMBDA p : Falsy(p.id))
        withId == SelectSeq(workspaceProfiles, LAMBDA p : ~Falsy(p.id))
        showMissingId == alsoGetFromWorkspace /\ ~SortThrows(userProfiles)
                         /\ missingIdConns # <<>>
        throws == \/ SortThrows(userProfiles)
                  \/ (alsoGetFromWorkspace /\ SortThrows(withId))
        profiles == IF throws THEN <<>>
                    ELSE SortProfiles(userProfiles) \o
                         (IF alsoGetFromWorkspace THEN SortProfiles(withId) ELSE <<>>)
    IN  [throws |-> throws,
         showMissingId |-> showMissingId,
         profiles |-> SelectSeq(profiles, HasConnectionInfo),
         missingInfo |-> Len(SelectSeq(profiles, LAMBDA p : ~HasConnectionInfo(p)))]

\* getConnections from `await this.initialized` to `await this.getGroups()`:
\* whether a sort throws, the profiles kept so far, whether the missing-id
\* error is shown, and how many missing-information errors are shown
GetConnectionsPlan(alsoGetFromWorkspace) ==
    LET userProfiles == getConnectionsFromSettings(Global)
        workspaceProfiles == getConnectionsFromSettings(Workspace)
        missingIdConns == IF hasDisplayedMissingIdError THEN <<>>
                          ELSE SelectSeq(workspaceProfiles, LAMBDA p : Falsy(p.id))
        withId == SelectSeq(workspaceProfiles, LAMBDA p : ~Falsy(p.id))
        showMissingId == alsoGetFromWorkspace /\ ~SortThrows(userProfiles)
                         /\ missingIdConns # <<>>
        throws == \/ SortThrows(userProfiles)
                  \/ (alsoGetFromWorkspace /\ SortThrows(withId))
        profiles == IF throws THEN <<>>
                    ELSE SortProfiles(userProfiles) \o
                         (IF alsoGetFromWorkspace THEN SortProfiles(withId) ELSE <<>>)
    IN  [throws |-> throws,
         showMissingId |-> showMissingId,
         profiles |-> SelectSeq(profiles, HasConnectionInfo),
         missingInfo |-> Len(SelectSeq(profiles, LAMBDA p : ~HasConnectionInfo(p)))]

ErrorsShown(c, n) == [k \in 1..n |-> CallLog(c, "showError", "missingConnectionInformation", "-")]

\* the operations that begin with a call of getConnections, and the
\* argument they call it with
ViaGetConnections ==
    {"getConnections", "getConnectionById", "removeConnection", "updateConnection"}
AlsoGetFromWorkspace(call) ==
    CASE call.op = "getConnections" -> call.arg.alsoGetFromWorkspace
      [] call.op = "getConnectionById" -> TRUE
      [] OTHER -> FALSE

getConnections(c, alsoGetFromWorkspace) ==
    /\ Constructed
    /\ NotYetCalled(c)
    /\ calls' = [calls EXCEPT ![c] =
          Start(c, "getConnections", [alsoGetFromWorkspace |-> alsoGetFromWorkspace])]
    /\ UNCHANGED <<settings, inflight, guid, instVars, hasDisplayedMissingIdError, log,
                   queryRunnerVars>>

\* getConnections resumed after `await this.initialized`
getConnectionsResume(c) ==
    /\ calls[c].op \in ViaGetConnections
    /\ calls[c].pc = "awaitInit"
    /\ InitGateOpen
    /\ LET also == AlsoGetFromWorkspace(calls[c])
           plan == GetConnectionsPlan(also)
           reads == <<CallLog(c, "read", connectionsArrayName, Global)>> \o
                    (IF also /\ ~SortThrows(getConnectionsFromSettings(Global))
                     THEN <<CallLog(c, "read", connectionsArrayName, Workspace)>>
                     ELSE <<>>)
           shown == IF plan.showMissingId
                    THEN <<CallLog(c, "showError", "missingConnectionIdsError", "-")>>
                    ELSE <<>>
       IN  /\ hasDisplayedMissingIdError' =
                 (hasDisplayedMissingIdError \/ plan.showMissingId)
           /\ log' = log \o reads \o shown \o ErrorsShown(c, plan.missingInfo)
           /\ calls' = [calls EXCEPT ![c] =
                 IF plan.throws THEN Reject(@, "TypeError")
                 ELSE [@ EXCEPT !.pc = "awaitGetGroups",
                                !.loc = [profiles |-> plan.profiles]]]
    /\ UNCHANGED <<settings, inflight, guid, instVars, queryRunnerVars>>

\* getConnections resumed after `await this.getGroups()`, which itself
\* awaits `initialized` before it reads the global groups
getConnectionsFilterGroups(c) ==
    /\ calls[c].op \in ViaGetConnections
    /\ calls[c].pc = "awaitGetGroups"
    /\ InitGateOpen
    /\ LET groupIds == {g.id : g \in Range(GetGroupsResult(Global))}
           profiles == SelectSeq(calls[c].loc.profiles, LAMBDA p : p.groupId \in groupIds)
       IN  calls' = [calls EXCEPT ![c] =
              IF @.op = "getConnections" THEN Return(@, profiles)
              ELSE [@ EXCEPT !.pc = "gotConnections", !.loc = [profiles |-> profiles]]]
    /\ log' = Append(log, CallLog(c, "read", connectionGroupsArrayName, Global))
    /\ UNCHANGED <<settings, inflight, guid, instVars, hasDisplayedMissingIdError,
                   queryRunnerVars>>

(***************************************************************************)
(* The initialization gate: calls issued while initialize() is running     *)
(***************************************************************************)
InitGate ==
    /\ \E gGroups \in {<<>>,
                       <<Group("A", "grp", Undef)>>,
                       <<Group("L", RootGroupName, RootGroupId), Group("A", "grp", "L")>>} :
         \E gConns \in {<<Profile("c1", "A")>>, <<Profile(Undef, "L")>>} :
           settings = MkSettings(gGroups, gConns, <<>>, <<Profile(Undef, "A")>>, <<>>, <<>>)
    /\ guid = 0
    /\ run = 1
    /\ initPc = "groupPass"
    /\ initialized = FALSE
    /\ resolveCalls = 0
    /\ inflight = <<>>
    /\ calls = [c \in CallIds |-> IdleCall]
    /\ hasDisplayedMissingIdError = FALSE
    /\ log = <<>>
    /\ atRunStart = settings
    /\ NoQueryRunners

NextGate ==
    \/ assignConnectionGroupMissingIds
    \/ assignConnectionMissingIds
    \/ InitWriteCompletes
    \/ ResolveInitialized
    \/ \E c \in CallIds :
         \/ getGroups(c, Global)
         \/ getGroupsResume(c)
         \/ getConnections(c, TRUE)
         \/ getConnectionsResume(c)
         \/ getConnectionsFilterGroups(c)
         \/ addGroup(c, Group(Undef, "new", Undef), "user")
         \/ removeGroup(c, "A", "move")
         \/ removeGroupWriteGroups(c)
         \/ CallWriteCompletes(c)

SpecGate == InitGate /\ [][NextGate]_vars

(***************************************************************************)
(* removeGroup: one call on an initialized instance, on any small store    *)
(***************************************************************************)
\* the groups of a store: A, B and C under ROOT or under one another (the
\* chain ROOT -> A -> B -> C, siblings, the cycle A <-> B, a dangling
\* parent), and a persisted ROOT-id entry
TreeGroups ==
    {Group("A", "grp", RootGroupId), Group("A", "grp", "B"),
     Group("B", "grp", "A"), Group("B", "grp", RootGroupId),
     Group("C", "grp", RootGroupId), Group("C", "grp", "B"),
     getRootGroup}
TreeGroupIds == {RootGroupId, "A", "B"}
ProfileAt(i, groupId) == Profile("c" \o ToString(i), groupId)

InitRemoveGroup ==
    /\ \E ng \in 0..MaxTree :
         \E gGroups \in [1..ng -> TreeGroups] :
           \E nc \in 0..(MaxTree - ng) :
             \E gids \in [1..nc -> TreeGroupIds] :
               settings = MkSettings(gGroups,
                                     [k \in 1..nc |-> ProfileAt(k, gids[k])],
                                     <<Group("A", "grp", RootGroupId)>>,
                                     <<Profile("w1", "A")>>, <<>>, <<>>)
    /\ guid = 0
    /\ run = 1
    /\ initPc = "done"
    /\ initialized = TRUE
    /\ resolveCalls = 1
    /\ inflight = <<>>
    /\ calls = [c \in CallIds |-> IdleCall]
    /\ hasDisplayedMissingIdError = FALSE
    /\ log = <<>>
    /\ atRunStart = settings
    /\ NoQueryRunners

NextRemoveGroup ==
    \/ \E id \in {RootGroupId, "A", "B", "Z"} :
         \E contentAction \in {"delete", "move"} : removeGroup(1, id, contentAction)
    \/ removeGroupWriteGroups(1)
    \/ CallWriteCompletes(1)

SpecRemoveGroup == InitRemoveGroup /\ [][NextRemoveGroup]_vars

(***************************************************************************)
(* Properties of the repair passes (checked under SpecRepair)              *)
(***************************************************************************)
GlobalGroups == settings[connectionGroupsArrayName][Global]
GlobalConns == settings[connectionsArrayName][Global]
GroupsAtStart == atRunStart[connectionGroupsArrayName][Global]
ConnsAtStart == atRunStart[connectionsArrayName][Global]
InitWrites(section) ==
    {i \in DOMAIN log : /\ log[i].run = run /\ log[i].by = "init"
                        /\ log[i].ev = "write" /\ log[i].section = section}
StoredGroupIds == {g.id : g \in Range(GlobalGroups)}

\* C1: a second run of the two passes, on the data the first run left,
\* issues no settings write and leaves every stored array as it was.
C1_SecondRunIdempotent ==
    run > 1 =>
        /\ settings = atRunStart
        /\ \A i \in DOMAIN log : log[i].run > 1 => log[i].ev # "write"

\* C1 witness: the second run has completed on a store the first run repaired
C1_Witness ==
    /\ run = 2
    /\ initPc = "done"
    /\ \E i \in DOMAIN log : log[i].run = 1 /\ log[i].ev = "write"
                             /\ log[i].section = connectionGroupsArrayName
    /\ \E i \in DOMAIN log : log[i].run = 1 /\ log[i].ev = "write"
                             /\ log[i].section = connectionsArrayName

\* C4 as stated: after initialization every stored global group has a
\* non-empty id and a parentId that is ROOT or the id of a stored group.
C4_Original ==
    initPc = "done" =>
        \A g \in Range(GlobalGroups) :
            /\ ~Falsy(g.id)
            /\ g.parentId \in {RootGroupId} \cup StoredGroupIds

\* C4 amended: after initialization every stored global group other than a
\* persisted ROOT-id entry has a non-empty id and a parentId that is ROOT
\* or the id of a stored group.
C4_RepairedGroups ==
    initPc = "done" =>
        \A g \in Range(GlobalGroups) :
            NotRoot(g) =>
                /\ ~Falsy(g.id)
                /\ g.parentId \in {RootGroupId} \cup StoredGroupIds

\* C4 witness: initialization completed on a store that held a group without
\* id and a group whose parent did not exist
C4_Witness ==
    /\ run = 1
    /\ initPc = "done"
    /\ \E g \in Range(GroupsAtStart) : NotRoot(g) /\ Falsy(g.id)
    /\ \E g \in Range(GroupsAtStart) :
          /\ NotRoot(g) /\ ~Falsy(g.parentId)
          /\ g.parentId \notin {RootGroupId} \cup {h.id : h \in Range(GroupsAtStart)}

\* C5 as stated: after initialization every stored global profile has an id
\* and a groupId that is ROOT or the id of a stored global group.
C5_Original ==
    initPc = "done" =>
        \A p \in Range(GlobalConns) :
            /\ ~Falsy(p.id)
            /\ p.groupId \in {RootGroupId} \cup StoredGroupIds

C7_InitWritesOnlyRepairs ==
    /\ \A l \in {Workspace, WorkspaceFolder} : \A s \in Sections :
          settings[s][l] = atRunStart[s][l]
    /\ \A i \in DOMAIN log :
          (log[i].by = "init" /\ log[i].ev \in {"write", "written"}) =>
              log[i].target = Global
    /\ \A s \in Sections : Cardinality(InitWrites(s)) <= 1
    /\ \A i \in DOMAIN inflight :
          inflight[i].by = "init" =>
              /\ inflight[i].target = Global
              /\ LET stored == IF inflight[i].section = connectionGroupsArrayName
                               THEN Filter(GlobalGroups, NotRoot)
                               ELSE GlobalConns
                 IN  /\ Len(inflight[i].value) = Len(stored)
                     /\ \E k \in DOMAIN stored : inflight[i].value[k] # stored[k]

\* C7 witness: a run that wrote the groups and did not write the profiles
C7_Witness ==
    /\ run = 1
    /\ initPc = "done"
    /\ GlobalConns # <<>>
    /\ InitWrites(connectionGroupsArrayName) # {}
    /\ InitWrites(connectionsArrayName) = {}

(***************************************************************************)
(* Properties of removeGroup (checked under SpecRemoveGroup, where          *)
(* atRunStart is the store the call found)                                 *)
(***************************************************************************)
ChildIds(S, groups) == {g.id : g \in {h \in Range(groups) : h.parentId \in S}}

RECURSIVE Closure(_, _)
\* the ids reachable from S by following parentId downwards
Closure(S, groups) ==
    IF ChildIds(S, groups) \subseteq S THEN S
    ELSE Closure(S \cup ChildIds(S, groups), groups)

\* the group id and its transitive descendants
Subtree(id, groups) == Closure({id}, groups)

\* some group at or below id is its own descendant
HasCycle(id, groups) ==
    \E d \in Subtree(id, groups) : d \in Closure(ChildIds({d}, groups), groups)

IsRemoveGroup(c, contentAction) ==
    /\ calls[c].op = "removeGroup"
    /\ calls[c].arg.contentAction = contentAction
    /\ calls[c].arg.id # RootGroupId
    /\ \E g \in Range(GroupsAtStart) : g.id = calls[c].arg.id

WritesOf(c) == {i \in DOMAIN log : log[i].by = CallName(c) /\ log[i].ev = "write"}

C10_RootNeverRemoved ==
    \A c \in CallIds :
        (calls[c].op = "removeGroup" /\ calls[c].arg.id = RootGroupId) =>
            /\ calls[c].pc = "returned"
            /\ calls[c].result = "false"
            /\ WritesOf(c) = {}
            /\ inflight = <<>>
            /\ settings = atRunStart

\* C10 witness: removeGroup(ROOT, "delete") has returned on a store that
\* holds groups and a connection in one of them
C10_Witness ==
    /\ calls[1].op = "removeGroup"
    /\ calls[1].arg.id = RootGroupId
    /\ calls[1].arg.contentAction = "delete"
    /\ calls[1].pc = "returned"
    /\ \E g \in Range(GlobalGroups) : NotRoot(g) /\ g.parentId = RootGroupId
    /\ \E p \in Range(GlobalConns) : p.groupId # RootGroupId

(***************************************************************************)
(* Properties of the initialization gate (checked under SpecGate)          *)
(***************************************************************************)
\* what initialize() has done so far, in order
InitTrace ==
    LET ev == SelectSeq(log, LAMBDA e : e.by = "init")
    IN  [k \in DOMAIN ev |-> <<ev[k].ev, ev[k].section>>]

GroupPassNoWrite == <<<<"read", connectionGroupsArrayName>>>>
GroupPassWrite == <<<<"read", connectionGroupsArrayName>>,
                    <<"write", connectionGroupsArrayName>>,
                    <<"written", connectionGroupsArrayName>>>>
\* the profile pass reads the profiles (and the groups, for the legacy ids)
ProfilePassNoWrite == <<<<"read", connectionsArrayName>>>>
ProfilePassWrite == <<<<"read", connectionsArrayName>>,
                      <<"write", connectionsArrayName>>,
                      <<"written", connectionsArrayName>>>>
Resolved == <<<<"resolve", "-">>>>

ResolvedAt == {i \in DOMAIN log : log[i].ev = "resolve"}
AwaitsInit(c) == calls[c].op \in {"getConnections", "getGroups"}

\* C2: `initialized` is resolved at most once, and only when the group pass
\* and then the profile pass have run to their end, write-backs included;
\* a caller of getConnections or getGroups goes on only after that.
C2_ResolvedOnceAfterBothPasses ==
    /\ resolveCalls <= 1
    /\ Cardinality(ResolvedAt) <= 1
    /\ initialized <=> ResolvedAt # {}
    /\ initialized =>
          /\ InitTrace \in {g \o p \o Resolved :
                               g \in {GroupPassNoWrite, GroupPassWrite},
                               p \in {ProfilePassNoWrite, ProfilePassWrite}}
          /\ \A i \in DOMAIN inflight : inflight[i].by # "init"
    /\ \A c \in CallIds :
          AwaitsInit(c) =>
              /\ calls[c].pc # "awaitInit" => initialized
              /\ \A i \in DOMAIN log :
                    (log[i].by = CallName(c) /\ log[i].ev \in {"read", "showError"}) =>
                        \E j \in ResolvedAt : j < i

\* C2 witness: getGroups and getConnections were both called before
\* `initialized` resolved, both passes wrote, and both calls have returned
C2_Witness ==
    /\ initialized
    /\ InitTrace = GroupPassWrite \o ProfilePassWrite \o Resolved
    /\ \E c, d \in CallIds :
          /\ calls[c].op = "getGroups" /\ calls[c].pc = "returned"
          /\ calls[d].op = "getConnections" /\ calls[d].pc = "returned"
          /\ calls[c].early /\ calls[d].early

\* C3 as stated: every settings read and write of a CRUD call comes after
\* `initialized` has resolved.
C3_Original ==
    \A i \in DOMAIN log :
        (log[i].by # "init" /\ log[i].ev \in {"read", "write"}) =>
            \E j \in ResolvedAt : j < i

\* C11 as stated: removeGroup with an id that no stored global group carries
\* returns false and issues no write, whatever the content action and store.
C11_Original ==
    \A c \in CallIds :
        (/\ calls[c].op = "removeGroup"
         /\ \A g \in Range(GroupsAtStart) : g.id # calls[c].arg.id) =>
            /\ calls[c].pc = "returned"
            /\ calls[c].result = "false"
            /\ WritesOf(c) = {}
            /\ settings = atRunStart

(***************************************************************************)
(* updateGroup, and the operations on groups in both scopes                *)
(***************************************************************************)
\* mutant of UpdateGroupPlan: every entry that carries the id is replaced
UpdateGroupPlan_ReplacesAll(updatedGroup) ==
    LET groups == Filter(getGroupsFromSettings(Global), NotRoot)
    IN  [outcome |-> IF updatedGroup.id = RootGroupId THEN "skip"
                     ELSE IF \A k \in DOMAIN groups : groups[k].id # updatedGroup.id
                          THEN "throw" ELSE "write",
         groups |-> [k \in DOMAIN groups |->
                        IF groups[k].id = updatedGroup.id THEN updatedGroup
                        ELSE groups[k]]]

\* the synchronous part of updateGroup: whether it returns at once, throws or
\* writes, and the array it writes
UpdateGroupPlan(updatedGroup) ==
    LET groups == Filter(getGroupsFromSettings(Global), NotRoot)
        found == {k \in DOMAIN groups : groups[k].id = updatedGroup.id}
        index == IF found = {} THEN -1
                 ELSE CHOOSE k \in found : \A j \in found : k <= j
    IN  [outcome |-> IF updatedGroup.id = RootGroupId THEN "skip"
                     ELSE IF index = -1 THEN "throw" ELSE "write",
         groups |-> [k \in DOMAIN groups |->
                        IF k = index THEN updatedGroup ELSE groups[k]]]

GroupNotFound == "Error: Connection group not found when updating"

\* updateGroup up to its first suspension (it does not await `initialized`)
updateGroup(c, updatedGroup) ==
    /\ Constructed
    /\ NotYetCalled(c)
    /\ LET plan == UpdateGroupPlan(updatedGroup)
           call == [Start(c, "updateGroup", [group |-> updatedGroup])
                        EXCEPT !.pc = "writing"]
           read == <<CallLog(c, "read", connectionGroupsArrayName, Global)>>
       IN  CASE plan.outcome = "skip" ->
                  /\ calls' = [calls EXCEPT ![c] = Return(call, "void")]
                  /\ UNCHANGED <<inflight, log>>
             [] plan.outcome = "throw" ->
                  /\ calls' = [calls EXCEPT ![c] = Reject(call, GroupNotFound)]
                  /\ log' = log \o read
                  /\ UNCHANGED inflight
             [] OTHER ->
                  /\ calls' = [calls EXCEPT ![c] = call]
                  /\ inflight' = Append(inflight,
                        Write(CallName(c), connectionGroupsArrayName, plan.groups, Global))
                  /\ log' = log \o read \o
                        <<CallLog(c, "write", connectionGroupsArrayName, Global)>>
    /\ UNCHANGED <<settings, guid, instVars, hasDisplayedMissingIdError, queryRunnerVars>>

\* a persisted entry that carries the ROOT id
RootEntry(name) == Group(RootGroupId, name, Undef)

\* the global groups (the last store holds two groups under one id), and the
\* workspace and workspace-folder groups
GroupStores ==
    {<<>>,
     <<RootEntry("mine"), Group("A", "grp", Undef)>>,
     <<Group("A", "grp", RootGroupId), RootEntry(RootGroupName),
       Group("A", "dup", RootGroupId)>>}
WorkspaceGroupStores ==
    {<<<<>>, <<>>>>,
     <<<<RootEntry(RootGroupName), Group("W", "grp", RootGroupId)>>,
       <<RootEntry("folder"), Group("F", "grp", RootGroupId)>>>>}

NewGroups == {Group(Undef, "new", Undef), RootEntry("new"), Group("B", "new", "A")}
UpdatedGroups == {Group("A", "renamed", RootGroupId), RootEntry("renamed"),
                  Group("Z", "renamed", RootGroupId)}

InitGroups ==
    /\ \E gGroups \in GroupStores, wGroups \in WorkspaceGroupStores :
         settings = MkSettings(gGroups, <<Profile("c1", "A")>>,
                               wGroups[1], <<>>, wGroups[2], <<>>)
    /\ guid = 0
    /\ run = 1
    /\ initPc = "groupPass"
    /\ initialized = FALSE
    /\ resolveCalls = 0
    /\ inflight = <<>>
    /\ calls = [c \in CallIds |-> IdleCall]
    /\ hasDisplayedMissingIdError = FALSE
    /\ log = <<>>
    /\ atRunStart = settings
    /\ NoQueryRunners

\* no call is under way: the operations are called one after the other
NoCallPending == \A c \in CallIds : Settled(c)

NextGroups ==
    \/ assignConnectionGroupMissingIds
    \/ assignConnectionMissingIds
    \/ ResolveInitialized
    \/ InitWriteCompletes
    \/ \E c \in CallIds :
          \/ NoCallPending /\ \E location \in {Global, Workspace} : getGroups(c, location)
          \/ getGroupsResume(c)
          \/ NoCallPending /\ \E group \in NewGroups, scope \in {"user", "workspace"} :
                                  addGroup(c, group, scope)
          \/ NoCallPending /\ \E contentAction \in {"delete", "move"} :
                                  removeGroup(c, "A", contentAction)
          \/ removeGroupWriteGroups(c)
          \/ NoCallPending /\ \E updatedGroup \in UpdatedGroups : updateGroup(c, updatedGroup)
          \/ CallWriteCompletes(c)

SpecGroups == InitGroups /\ [][NextGroups]_vars

(***************************************************************************)
(* Properties of the group operations (checked under SpecGroups)           *)
(***************************************************************************)
GroupWrites == {i \in DOMAIN inflight : inflight[i].section = connectionGroupsArrayName}
HoldsRootEntry(groups) == \E g \in Range(groups) : g.id = RootGroupId

\* C12: no write of a groups array, by initialize(), addGroup, removeGroup or
\* updateGroup and in either scope, holds a group with the ROOT id.
C12_RootNeverWritten ==
    \A i \in GroupWrites : ~HoldsRootEntry(inflight[i].value)

\* C12 witness: addGroup has issued its write of the workspace groups, which
\* hold a persisted ROOT-id entry, after a write of the global groups, which
\* held one too, took effect
C12_Witness ==
    /\ \E i \in GroupWrites :
          /\ inflight[i].target = Workspace
          /\ inflight[i].by # "init"
          /\ inflight[i].value # <<>>
          /\ HoldsRootEntry(getGroupsFromSettings(Workspace))
    /\ HoldsRootEntry(atRunStart[connectionGroupsArrayName][Global])
    /\ ~HoldsRootEntry(getGroupsFromSettings(Global))

\* the groups stored in a scope: the workspace scope is the workspace layer
\* followed by the workspace-folder layer
StoredGroupsOf(location) ==
    IF location = Global
    THEN settings[connectionGroupsArrayName][Global]
    ELSE settings[connectionGroupsArrayName][Workspace] \o
         settings[connectionGroupsArrayName][WorkspaceFolder]

\* C13: getGroups(scope) returns the synthetic ROOT group first, as the only
\* element with the ROOT id, followed by the stored groups of the scope in
\* stored order without any persisted ROOT-id entry.
C13_GetGroupsRootFirst ==
    [][\A c \in CallIds :
          (/\ calls[c].op = "getGroups"
           /\ calls[c].pc = "awaitInit"
           /\ calls'[c].pc = "returned") =>
              LET r == calls'[c].result
              IN  /\ Len(r) >= 1
                  /\ r[1] = [id |-> RootGroupId, name |-> RootGroupName, parentId |-> Undef]
                  /\ Cardinality({k \in DOMAIN r : r[k].id = RootGroupId}) = 1
                  /\ Tail(r) = SelectSeq(StoredGroupsOf(calls[c].arg.location),
                                         LAMBDA g : g.id # RootGroupId)]_vars

\* C13 witness: getGroups has returned ROOT and the stored groups for each
\* scope (one of each workspace layer), and each scope holds a persisted
\* ROOT-id entry
C13_Witness ==
    \E c, d \in CallIds :
        /\ calls[c].op = "getGroups" /\ calls[c].pc = "returned"
        /\ calls[c].arg.location = Global
        /\ Len(calls[c].result) = 3
        /\ HoldsRootEntry(StoredGroupsOf(Global))
        /\ calls[d].op = "getGroups" /\ calls[d].pc = "returned"
        /\ calls[d].arg.location = Workspace
        /\ Len(calls[d].result) = 3
        /\ HoldsRootEntry(settings[connectionGroupsArrayName][Workspace])
        /\ HoldsRootEntry(settings[connectionGroupsArrayName][WorkspaceFolder])

(***************************************************************************)
(* getConnectionById, addConnection, removeConnection, updateConnection    *)
(***************************************************************************)
\* Utils.isSameProfile: the connection-defining fields are equal; the id and
\* the group are not compared
isSameProfile(a, b) ==
    /\ a.profileName = b.profileName
    /\ a.server = b.server
    /\ a.connectionString = b.connectionString

getConnectionById(c, id) ==
    /\ Constructed
    /\ NotYetCalled(c)
    /\ calls' = [calls EXCEPT ![c] = Start(c, "getConnectionById", [id |-> id])]
    /\ UNCHANGED <<settings, inflight, guid, instVars, hasDisplayedMissingIdError, log,
                   queryRunnerVars>>

\* mutant of FindById: the first profile is returned whatever its id
FindById_First(profiles, id) ==
    IF profiles = <<>> THEN <<>> ELSE <<profiles[1]>>

\* profiles.find((profile) => profile.id === id)
FindById(profiles, id) ==
    LET found == {k \in DOMAIN profiles : profiles[k].id = id}
    IN  IF found = {} THEN <<>>
        ELSE <<profiles[CHOOSE k \in found : \A j \in found : k <= j]>>

\* getConnectionById resumed after `await this.getConnections(true)`; the
\* result is the profile found, in a list that is empty for undefined
getConnectionByIdFind(c) ==
    /\ calls[c].op = "getConnectionById"
    /\ calls[c].pc = "gotConnections"
    /\ calls' = [calls EXCEPT ![c] = Return(@, FindById(@.loc.profiles, @.arg.id))]
    /\ UNCHANGED <<settings, inflight, guid, instVars, hasDisplayedMissingIdError, log,
                   queryRunnerVars>>

\* addConnection: the profile as stored, and the array written
AddConnectionPlan(profile, scope, n) ==
    LET r == populateMissingConnectionIds(profile, n)
        profiles == SelectSeq(getConnectionsFromSettings(ConfigTargetOf(scope)),
                              LAMBDA value : ~isSameProfile(value, r.profile))
    IN  [profile |-> r.profile,
         profiles |-> Append(profiles, r.profile),
         guid |-> r.guid]

\* addConnection up to its first suspension (it does not await `initialized`);
\* loc keeps the profile as back-filled and the profiles as read
addConnection(c, profile, scope) ==
    /\ Constructed
    /\ NotYetCalled(c)
    /\ LET plan == AddConnectionPlan(profile, scope, guid)
       IN  /\ calls' = [calls EXCEPT ![c] =
                 [Start(c, "addConnection", [profile |-> profile, scope |-> scope])
                     EXCEPT !.pc = "writing",
                            !.loc = [profile |-> plan.profile,
                                     read |-> getConnectionsFromSettings(
                                                  ConfigTargetOf(scope))]]]
           /\ guid' = plan.guid
           /\ inflight' = Append(inflight,
                 Write(CallName(c), connectionsArrayName, plan.profiles,
                       ConfigTargetOf(scope)))
           /\ log' = log \o
                 <<CallLog(c, "read", connectionsArrayName, ConfigTargetOf(scope)),
                   CallLog(c, "write", connectionsArrayName, ConfigTargetOf(scope))>>
    /\ UNCHANGED <<settings, instVars, hasDisplayedMissingIdError, queryRunnerVars>>

removeConnection(c, profile) ==
    /\ Constructed
    /\ NotYetCalled(c)
    /\ calls' = [calls EXCEPT ![c] = Start(c, "removeConnection", [profile |-> profile])]
    /\ UNCHANGED <<settings, inflight, guid, instVars, hasDisplayedMissingIdError, log,
                   queryRunnerVars>>

\* mutant of removeConnectionHelper: the profile is found and not removed
removeConnectionHelper_KeepsAll(toRemove, profiles) ==
    [profiles |-> profiles,
     found |-> \E k \in DOMAIN profiles : isSameProfile(profiles[k], toRemove)]

\* removeConnectionHelper: the profiles left, and whether one was removed
removeConnectionHelper(toRemove, profiles) ==
    LET left == SelectSeq(profiles, LAMBDA p : ~isSameProfile(p, toRemove))
    IN  [profiles |-> left, found |-> Len(left) # Len(profiles)]

\* removeConnection resumed after `await this.getConnections(false)`
removeConnectionWrite(c) ==
    /\ calls[c].op = "removeConnection"
    /\ calls[c].pc = "gotConnections"
    /\ LET r == removeConnectionHelper(calls[c].arg.profile, calls[c].loc.profiles)
       IN  IF r.found
           THEN /\ calls' = [calls EXCEPT ![c].pc = "removedWrite"]
                /\ inflight' = Append(inflight,
                      Write(CallName(c), connectionsArrayName, r.profiles, Global))
                /\ log' = Append(log, CallLog(c, "write", connectionsArrayName, Global))
           ELSE /\ calls' = [calls EXCEPT ![c] = Return(@, "false")]
                /\ UNCHANGED <<inflight, log>>
    /\ UNCHANGED <<settings, guid, instVars, hasDisplayedMissingIdError, queryRunnerVars>>

updateConnection(c, updatedProfile) ==
    /\ Constructed
    /\ NotYetCalled(c)
    /\ calls' = [calls EXCEPT ![c] =
          Start(c, "updateConnection", [profile |-> updatedProfile])]
    /\ UNCHANGED <<settings, inflight, guid, instVars, hasDisplayedMissingIdError, log,
                   queryRunnerVars>>

ConnectionNotFound == "Error: Connection not found"

\* updateConnection resumed after `await this.getConnections(false)`
updateConnectionWrite(c) ==
    /\ calls[c].op = "updateConnection"
    /\ calls[c].pc = "gotConnections"
    /\ LET profiles == calls[c].loc.profiles
           updatedProfile == calls[c].arg.profile
           found == {k \in DOMAIN profiles : profiles[k].id = updatedProfile.id}
       IN  IF found = {}
           THEN /\ calls' = [calls EXCEPT ![c] = Reject(@, ConnectionNotFound)]
                /\ UNCHANGED <<inflight, log>>
           ELSE LET index == CHOOSE k \in found : \A j \in found : k <= j
                IN  /\ calls' = [calls EXCEPT ![c].pc = "writing"]
                    /\ inflight' = Append(inflight,
                          Write(CallName(c), connectionsArrayName,
                                [profiles EXCEPT ![index] = updatedProfile], Global))
                    /\ log' = Append(log, CallLog(c, "write", connectionsArrayName, Global))
    /\ UNCHANGED <<settings, guid, instVars, hasDisplayedMissingIdError, queryRunnerVars>>

(***************************************************************************)
(* Reading the connections: getConnections and getConnectionById on stores *)
(* of named and unnamed profiles in the three layers                       *)
(***************************************************************************)
MaxProfiles == 2

Conn(id, groupId, profileName, server, connectionString) ==
    [id |-> id, groupId |-> groupId, profileName |-> profileName,
     server |-> server, connectionString |-> connectionString]

\* global profiles: named, named by the server, in a group that is not
\* stored, with the sample server, with a connection string only, and
\* without any name, server or connection string
GlobalProfiles ==
    {Conn("c1", RootGroupId, "beta", "srv", Undef),
     Conn("c2", "A", Undef, "alpha", Undef),
     Conn("c3", "X", "alpha", "srv", Undef),
     Conn("c4", RootGroupId, Undef, SampleServerName, Undef),
     Conn("c5", RootGroupId, Undef, Undef, "cs"),
     Conn("c6", RootGroupId, Undef, Undef, Undef)}

WorkspaceLayerStores ==
    {<<>>, <<Conn("w3", "A", Undef, "srv", Undef)>>,
     <<Conn(Undef, RootGroupId, "beta", "srv", Undef)>>}
FolderLayerStores ==
    {<<>>, <<Conn("w1", RootGroupId, "alpha", "srv", Undef)>>,
     <<Conn(Empty, RootGroupId, "alpha", "srv", Undef)>>}

InitRead ==
    /\ \E gConns \in SeqsUpTo(GlobalProfiles, MaxProfiles),
          wConns \in WorkspaceLayerStores, fConns \in FolderLayerStores :
         settings = MkSettings(<<Group("A", "grp", RootGroupId)>>, gConns,
                               <<>>, wConns, <<>>, fConns)
    /\ guid = 0
    /\ run = 1
    /\ initPc = "groupPass"
    /\ initialized = FALSE
    /\ resolveCalls = 0
    /\ inflight = <<>>
    /\ calls = [c \in CallIds |-> IdleCall]
    /\ hasDisplayedMissingIdError = FALSE
    /\ log = <<>>
    /\ atRunStart = settings
    /\ NoQueryRunners

NextRead ==
    \/ assignConnectionGroupMissingIds
    \/ assignConnectionMissingIds
    \/ ResolveInitialized
    \/ \E c \in CallIds :
          \/ NoCallPending /\ \E also \in BOOLEAN : getConnections(c, also)
          \/ NoCallPending /\ getConnectionById(c, "w1")
          \/ getConnectionsResume(c)
          \/ getConnectionsFilterGroups(c)
          \/ getConnectionByIdFind(c)

SpecRead == InitRead /\ [][NextRead]_vars

(***************************************************************************)
(* Properties of getConnections (checked under SpecRead, where the         *)
(* profiles of the two scopes carry different ids)                         *)
(***************************************************************************)
StoredConnsOf(location) ==
    IF location = Global
    THEN settings[connectionsArrayName][Global]
    ELSE settings[connectionsArrayName][Workspace] \o
         settings[connectionsArrayName][WorkspaceFolder]

FromGlobal(p) == p \in Range(StoredConnsOf(Global))
FromWorkspace(p) == p \in Range(StoredConnsOf(Workspace))

\* the sort key: profileName if set, else server if set, else connectionString
DisplayKey(p) ==
    IF p.profileName # Undef THEN p.profileName
    ELSE IF p.server # Undef THEN p.server
    ELSE p.connectionString

\* locale order of the keys of the stored profiles
KeyBefore(a, b) ==
    \E i, j \in DOMAIN LocaleOrder :
        i < j /\ LocaleOrder[i] = DisplayKey(a) /\ LocaleOrder[j] = DisplayKey(b)

GetConnectionsReturned(c) ==
    calls[c].op = "getConnections" /\ calls[c].pc = "returned"

\* C14: a list returned by getConnections has the global profiles before the
\* workspace profiles, no neighbours of one scope in decreasing key order,
\* and no workspace profile when the workspace was not asked for.
C14_GlobalFirstEachSorted ==
    \A c \in CallIds :
        GetConnectionsReturned(c) =>
            LET r == calls[c].result
            IN  /\ \A i, j \in DOMAIN r :
                      (FromWorkspace(r[i]) /\ FromGlobal(r[j])) => j < i
                /\ \A i \in DOMAIN r :
                      (/\ i < Len(r)
                       /\ FromGlobal(r[i]) <=> FromGlobal(r[i + 1])) =>
                          ~KeyBefore(r[i + 1], r[i])
                /\ ~calls[c].arg.alsoGetFromWorkspace =>
                      \A i \in DOMAIN r : ~FromWorkspace(r[i])

\* C14 witness: getConnections(true) has returned two global profiles and
\* then two workspace profiles, each pair stored in the opposite order
C14_Witness ==
    \E c \in CallIds :
        /\ GetConnectionsReturned(c)
        /\ calls[c].arg.alsoGetFromWorkspace
        /\ StoredConnsOf(Global) = <<Conn("c1", RootGroupId, "beta", "srv", Undef),
                                     Conn("c2", "A", Undef, "alpha", Undef)>>
        /\ StoredConnsOf(Workspace) = <<Conn("w3", "A", Undef, "srv", Undef),
                                        Conn("w1", RootGroupId, "alpha", "srv", Undef)>>
        /\ calls[c].result = <<Conn("c2", "A", Undef, "alpha", Undef),
                               Conn("c1", RootGroupId, "beta", "srv", Undef),
                               Conn("w1", RootGroupId, "alpha", "srv", Undef),
                               Conn("w3", "A", Undef, "srv", Undef)>>

\* the exclusion rules of getConnections
LacksConnectionInfo(p) ==
    /\ p.connectionString \in {Undef, Empty}
    /\ p.server \in {Undef, Empty, SampleServerName}
InUnknownGroup(p) ==
    p.groupId \notin {RootGroupId} \cup
                     {g.id : g \in Range(settings[connectionGroupsArrayName][Global])}
ShouldBeListed(c) ==
    {p \in Range(StoredConnsOf(Global)) :
        ~LacksConnectionInfo(p) /\ ~InUnknownGroup(p)}
    \cup
    (IF calls[c].arg.alsoGetFromWorkspace
     THEN {p \in Range(StoredConnsOf(Workspace)) :
              p.id \notin {Undef, Empty} /\ ~LacksConnectionInfo(p) /\ ~InUnknownGroup(p)}
     ELSE {})

\* C15 as stated: getConnections yields a result, and a stored profile of a
\* requested scope is in it exactly when no exclusion rule applies to it.
C15_Original ==
    \A c \in CallIds :
        (calls[c].op = "getConnections" /\ Settled(c)) =>
            /\ calls[c].pc = "returned"
            /\ Range(calls[c].result) = ShouldBeListed(c)

\* where the log holds the missing-connection-id error, and the reads of the
\* workspace profiles
MissingIdErrors ==
    {i \in DOMAIN log : log[i].ev = "showError" /\ log[i].section = "missingConnectionIdsError"}
WorkspaceReads ==
    {i \in DOMAIN log : /\ log[i].ev = "read"
                        /\ log[i].section = connectionsArrayName
                        /\ log[i].target = Workspace}
SomeWorkspaceProfileLacksId ==
    \E p \in Range(StoredConnsOf(Workspace)) : p.id \in {Undef, Empty}

\* C16: the missing-connection-id error is shown at most once, by the first
\* call that reads the workspace profiles while one of them lacks an id, and
\* no returned list holds a workspace profile without id (the workspace
\* profiles do not change in SpecRead).
C16_MissingIdErrorOnce ==
    /\ Cardinality(MissingIdErrors) <= 1
    /\ ~SomeWorkspaceProfileLacksId => MissingIdErrors = {}
    /\ (SomeWorkspaceProfileLacksId /\ WorkspaceReads # {}) =>
          LET first == CHOOSE i \in WorkspaceReads : \A j \in WorkspaceReads : i <= j
          IN  /\ first + 1 \in MissingIdErrors
              /\ log[first + 1].by = log[first].by
    /\ \A c \in CallIds :
          (calls[c].op \in {"getConnections", "getConnectionById"}
           /\ calls[c].pc = "returned") =>
              \A p \in Range(calls[c].result) :
                  FromWorkspace(p) => p.id \notin {Undef, Empty}

\* C16 witness: two calls have read the workspace profiles, one of which
\* lacks an id, and returned; the second showed no error
C16_Witness ==
    /\ SomeWorkspaceProfileLacksId
    /\ Cardinality(WorkspaceReads) = 2
    /\ Cardinality({log[i].by : i \in WorkspaceReads}) = 2
    /\ Cardinality(MissingIdErrors) = 1
    /\ \A c \in {1, 2} : calls[c].pc = "returned"
    /\ calls[1].op = "getConnections" /\ calls[2].op = "getConnectionById"
    /\ \E p \in Range(calls[1].result) : FromWorkspace(p)

(***************************************************************************)
(* Changing the connections: addConnection, removeConnection and           *)
(* updateConnection called one after the other, from construction on       *)
(***************************************************************************)
\* global profiles: two that are the same with different ids around one in a
\* group that is not stored; one without name, server and connection string;
\* one without id and group, which initialize() repairs
WriteStores ==
    {<<>>,
     <<Conn("c1", RootGroupId, "alpha", "srv", Undef),
       Conn("c3", "X", "beta", "srv", Undef),
       Conn("c2", "A", "alpha", "srv", Undef)>>,
     <<Conn("c1", RootGroupId, "alpha", "srv", Undef),
       Conn("c6", RootGroupId, Undef, Undef, Undef)>>,
     <<Conn(Undef, Undef, "beta", "srv", Undef)>>}
\* the workspace layer and the workspace-folder layer
WriteWorkspaceStores ==
    {<<<<>>, <<>>>>,
     <<<<Conn("w1", RootGroupId, "beta", "srv", Undef)>>,
       <<Conn("w2", RootGroupId, "alpha", "srv", Undef)>>>>}

\* profiles to add, with the scope: without id and group; with the sample
\* server in a group that is not stored; with the id of a stored profile;
\* with an empty id
NewProfiles ==
    {<<Conn(Undef, Undef, "alpha", "srv", Undef), "user">>,
     <<Conn(Undef, Undef, "alpha", "srv", Undef), "workspace">>,
     <<Conn("n2", "X", Undef, SampleServerName, Undef), "user">>,
     <<Conn("c1", RootGroupId, "beta", "srv", Undef), "user">>,
     <<Conn(Empty, RootGroupId, "beta", "srv", Undef), "workspace">>}
RemovedProfiles ==
    {Conn(Undef, Undef, "alpha", "srv", Undef), Conn(Undef, Undef, "beta", "srv", Undef)}
UpdatedProfiles ==
    {Conn("c1", "A", "beta", "srv", Undef), Conn("zz", "A", "beta", "srv", Undef)}
QueriedIds == {Guid(1), Guid(2), "n2", "c1", Empty}

InitWrite ==
    /\ \E gConns \in WriteStores, wConns \in WriteWorkspaceStores :
         settings = MkSettings(<<Group("A", "grp", RootGroupId)>>, gConns,
                               <<>>, wConns[1], <<>>, wConns[2])
    /\ guid = 0
    /\ run = 1
    /\ initPc = "groupPass"
    /\ initialized = FALSE
    /\ resolveCalls = 0
    /\ inflight = <<>>
    /\ calls = [c \in CallIds |-> IdleCall]
    /\ hasDisplayedMissingIdError = FALSE
    /\ log = <<>>
    /\ atRunStart = settings
    /\ NoQueryRunners

NextWrite ==
    \/ assignConnectionGroupMissingIds
    \/ assignConnectionMissingIds
    \/ ResolveInitialized
    \/ InitWriteCompletes
    \/ \E c \in CallIds :
          \/ NoCallPending /\ \E new \in NewProfiles : addConnection(c, new[1], new[2])
          \/ NoCallPending /\ \E profile \in RemovedProfiles : removeConnection(c, profile)
          \/ NoCallPending /\ \E profile \in UpdatedProfiles : updateConnection(c, profile)
          \/ NoCallPending /\ \E id \in QueriedIds : getConnectionById(c, id)
          \/ getConnectionsResume(c)
          \/ getConnectionsFilterGroups(c)
          \/ getConnectionByIdFind(c)
          \/ removeConnectionWrite(c)
          \/ updateConnectionWrite(c)
          \/ CallWriteCompletes(c)

SpecWrite == InitWrite /\ [][NextWrite]_vars

(***************************************************************************)
(* Properties of addConnection, removeConnection and updateConnection      *)
(* (checked under SpecWrite)                                               *)
(***************************************************************************)
\* call c returns from addConnection in this step
AddConnectionReturns(c) ==
    /\ calls[c].op = "addConnection"
    /\ calls[c].pc = "writing"
    /\ calls'[c].pc = "returned"

\* C17 as stated: when addConnection(p, scope) returns, the profiles read
\* from the scope are those read before that are not the same as p, in
\* order, followed by p, which has an id and a groupId.
C17_Original ==
    [][\A c \in CallIds :
          AddConnectionReturns(c) =>
              LET p == calls[c].loc.profile
                  before == calls[c].loc.read
                  after == StoredConnsOf(ConfigTargetOf(calls[c].arg.scope))'
              IN  /\ after = SelectSeq(before, LAMBDA q : ~isSameProfile(q, p)) \o <<p>>
                  /\ Cardinality({k \in DOMAIN after : isSameProfile(after[k], p)}) = 1
                  /\ p.id # Undef /\ p.groupId # Undef
                  /\ calls[c].arg.profile.groupId = Undef => p.groupId = RootGroupId]_vars

\* call d is getConnectionById(p.id), made right after addConnection(p) of
\* call c has returned, and is over
RoundTrip(c, d) ==
    /\ d = c + 1
    /\ calls[c].op = "addConnection" /\ calls[c].pc = "returned"
    /\ calls[d].op = "getConnectionById"
    /\ calls[d].pc \in {"returned", "rejected"}
    /\ calls[d].arg.id = calls[c].loc.profile.id

AllStoredConns == StoredConnsOf(Global) \o StoredConnsOf(Workspace)
HasNoSortKey(p) ==
    /\ p.profileName \in {Undef, Empty}
    /\ p.server \in {Undef, Empty}
    /\ p.connectionString \in {Undef, Empty}

\* call d, getConnectionById(p.id) made right after addConnection(p) of call
\* c has returned, comes to its end in this step
RoundTripEnds(c, d) ==
    /\ d = c + 1
    /\ calls[c].op = "addConnection" /\ calls[c].pc = "returned"
    /\ calls[d].op = "getConnectionById"
    /\ calls[d].arg.id = calls[c].loc.profile.id
    /\ calls[d].pc \in {"awaitInit", "awaitGetGroups", "gotConnections"}
    /\ calls'[d].pc \in {"returned", "rejected"}

HeldGlobally(p) ==
    \E q \in Range(settings[connectionsArrayName][Global]) : isSameProfile(q, p)

\* C19 as stated: removeConnection(p) returns true exactly when the global
\* array holds a profile that is the same as p, and then none is left;
\* when it returns false it has issued no write.
C19_Original ==
    [][\A c \in CallIds :
          calls[c].op = "removeConnection" =>
              LET p == calls[c].arg.profile
              IN  /\ (calls[c].pc \in {"awaitInit", "awaitGetGroups", "gotConnections"}
                      /\ calls'[c].pc \in {"returned", "rejected"}) =>
                         /\ calls'[c].pc = "returned"
                         /\ calls'[c].result = "false"
                         /\ ~HeldGlobally(p)
                         /\ inflight' = inflight
                  /\ (calls[c].pc = "gotConnections" /\ calls'[c].pc = "removedWrite") =>
                         HeldGlobally(p)
                  /\ (calls[c].pc = "removedWrite" /\ calls'[c].pc = "returned") =>
                         /\ calls'[c].result = "true"
                         /\ ~HeldGlobally(p)']_vars

\* a stored global profile carries the id
IdHeldGlobally(id) ==
    \E q \in Range(settings[connectionsArrayName][Global]) : q.id = id

\* call c, under way, issues a write or comes to its end in this step
Decides(c) ==
    /\ calls[c].pc \in {"awaitInit", "awaitGetGroups", "gotConnections"}
    /\ calls'[c].pc \in {"writing", "returned", "rejected"}

\* C20 as stated: updateConnection(p), when no stored global profile has the
\* id of p, rejects with the not-found error, issues no write and leaves the
\* settings as they are.
C20_Original ==
    [][\A c \in CallIds :
          (/\ calls[c].op = "updateConnection"
           /\ ~IdHeldGlobally(calls[c].arg.profile.id)
           /\ Decides(c)) =>
              /\ calls'[c].pc = "rejected"
              /\ calls'[c].result = ConnectionNotFound
              /\ inflight' = inflight
              /\ settings' = settings]_vars

\* the array with the first profile that carries the id of p replaced by p
ReplacedById(profiles, p) ==
    LET found == {k \in DOMAIN profiles : profiles[k].id = p.id}
    IN  [k \in DOMAIN profiles |->
            IF found # {} /\ k = (CHOOSE i \in found : \A j \in found : i <= j)
            THEN p ELSE profiles[k]]

\* C21 as stated: updateConnection(p), when a stored global profile has the
\* id of p, does not throw, and when it returns the global profiles are those
\* stored before with that profile replaced by p in place and every other
\* profile still there, unchanged.
C21_Original ==
    [][\A c \in CallIds :
          (/\ calls[c].op = "updateConnection"
           /\ IdHeldGlobally(calls[c].arg.profile.id)) =>
              /\ Decides(c) => calls'[c].pc = "writing"
              /\ (calls[c].pc = "writing" /\ calls'[c].pc = "returned") =>
                    settings'[connectionsArrayName][Global] =
                        ReplacedById(settings[connectionsArrayName][Global],
                                     calls[c].arg.profile)]_vars

(***************************************************************************)
(* Properties of addGroup and updateGroup (checked under SpecGroups)       *)
(***************************************************************************)
\* call c returns from addGroup in this step, its write having taken effect
AddGroupReturns(c) ==
    /\ calls[c].op = "addGroup"
    /\ calls[c].pc = "writing"
    /\ calls'[c].pc = "returned"

\* C22 as stated: addGroup with a group that carries the ROOT id returns
\* without a write; otherwise, when addGroup(g, scope) returns, the groups
\* read from the scope are the non-ROOT groups read before, in order,
\* followed by g with an id (a generated one if it had none) and a parentId
\* (ROOT if it had none).
C22_Original ==
    [][\A c \in CallIds :
          /\ (/\ calls[c].pc = "idle"
              /\ calls'[c].op = "addGroup"
              /\ calls'[c].arg.group.id = RootGroupId) =>
                 /\ calls'[c].pc = "returned"
                 /\ inflight' = inflight
                 /\ settings' = settings
          /\ AddGroupReturns(c) =>
                 LET g == calls[c].loc.group
                     given == calls[c].arg.group
                     before == calls[c].loc.read
                     after == StoredGroupsOf(ConfigTargetOf(calls[c].arg.scope))'
                 IN  /\ after = SelectSeq(before, NotRoot) \o <<g>>
                     /\ ~Falsy(g.id) /\ ~Falsy(g.parentId)
                     /\ g.name = given.name
                     /\ IF Falsy(given.id)
                        THEN \A h \in Range(before) : h.id # g.id
                        ELSE g.id = given.id
                     /\ g.parentId = IF Falsy(given.parentId) THEN RootGroupId
                                     ELSE given.parentId]_vars

\* the stored global groups without any entry that carries the ROOT id
GlobalNonRootGroups == SelectSeq(settings[connectionGroupsArrayName][Global], NotRoot)

\* the array with the first group that carries the id of g replaced by g
ReplacedGroup(groups, g) ==
    LET found == {k \in DOMAIN groups : groups[k].id = g.id}
    IN  [k \in DOMAIN groups |->
            IF found # {} /\ k = (CHOOSE i \in found : \A j \in found : i <= j)
            THEN g ELSE groups[k]]

\* call c is made in this step, and it is a call of updateGroup
UpdateGroupCalled(c) ==
    /\ calls[c].pc = "idle"
    /\ calls'[c].op = "updateGroup"

\* C23: updateGroup(g) with the ROOT id returns without a write; with an id
\* that no stored global non-ROOT group carries it throws without a write;
\* otherwise it issues one write, of the global groups, holding the stored
\* non-ROOT groups in order with the (first) entry of that id replaced by g,
\* and returns when that write has taken effect.
C23_UpdateGroupReplacesInPlace ==
    [][\A c \in CallIds :
          /\ UpdateGroupCalled(c) =>
                LET g == calls'[c].arg.group
                IN  CASE g.id = RootGroupId ->
                           /\ calls'[c].pc = "returned"
                           /\ inflight' = inflight
                      [] g.id # RootGroupId
                         /\ (\A h \in Range(GlobalNonRootGroups) : h.id # g.id) ->
                           /\ calls'[c].pc = "rejected"
                           /\ calls'[c].result = GroupNotFound
                           /\ inflight' = inflight
                      [] OTHER ->
                           /\ calls'[c].pc = "writing"
                           /\ inflight' = Append(inflight,
                                 [by |-> CallName(c),
                                  section |-> connectionGroupsArrayName,
                                  target |-> Global,
                                  value |-> ReplacedGroup(GlobalNonRootGroups, g)])
          /\ (/\ calls[c].op = "updateGroup"
              /\ calls[c].pc = "writing"
              /\ calls'[c] # calls[c]) =>
                /\ calls'[c].pc = "returned"
                /\ settings' = [settings EXCEPT ![connectionGroupsArrayName][Global] =
                                   Head(inflight).value]
                /\ Cardinality(WritesOf(c)) = 1]_vars

\* C23 witness: on a store that holds a ROOT-id entry and two groups under
\* the id A, updateGroup has thrown for the id Z, and updateGroup for the id
\* A has returned having replaced the first of the two
C23_Witness ==
    /\ calls[1].op = "updateGroup" /\ calls[1].arg.group.id = "Z"
    /\ calls[1].pc = "rejected"
    /\ calls[2].op = "updateGroup" /\ calls[2].arg.group.id = "A"
    /\ calls[2].pc = "returned"
    /\ HoldsRootEntry(atRunStart[connectionGroupsArrayName][Global])
    /\ settings[connectionGroupsArrayName][Global] =
          <<Group("A", "renamed", RootGroupId), Group("A", "dup", RootGroupId)>>

(***************************************************************************)
(* The mutating operations called without awaiting one another, on an      *)
(* initialized instance whose three layers all hold groups and profiles    *)
(***************************************************************************)
RaceGroups == <<Group("A", "grp", RootGroupId), Group("B", "grp", "A")>>
RaceConns ==
    <<Conn("c1", RootGroupId, "alpha", "srv", Undef),
      Conn("c2", "A", "beta", "srv", Undef)>>

InitRace ==
    /\ settings = MkSettings(RaceGroups, RaceConns,
                             <<Group("W", "grp", RootGroupId)>>,
                             <<Conn("w1", RootGroupId, "beta", "srv", Undef)>>,
                             <<Group("F", "grp", RootGroupId)>>,
                             <<Conn("w2", RootGroupId, "alpha", "srv", Undef)>>)
    /\ guid = 0
    /\ run = 1
    /\ initPc = "done"
    /\ initialized = TRUE
    /\ resolveCalls = 1
    /\ inflight = <<>>
    /\ calls = [c \in CallIds |-> IdleCall]
    /\ hasDisplayedMissingIdError = FALSE
    /\ log = <<>>
    /\ atRunStart = settings
    /\ NoQueryRunners

\* the profile and the group the calls add
RaceProfile == Conn("n1", RootGroupId, Undef, "srv", Undef)
RaceGroup == Group("G", "new", RootGroupId)

NextRace ==
    \E c \in CallIds :
        \/ \E scope \in {"user", "workspace"} : addConnection(c, RaceProfile, scope)
        \/ removeConnection(c, Conn(Undef, Undef, "alpha", "srv", Undef))
        \/ updateConnection(c, Conn("c2", RootGroupId, "beta", "srv", Undef))
        \/ getConnectionsResume(c)
        \/ getConnectionsFilterGroups(c)
        \/ removeConnectionWrite(c)
        \/ updateConnectionWrite(c)
        \/ \E scope \in {"user", "workspace"} : addGroup(c, RaceGroup, scope)
        \/ removeGroup(c, "A", "move")
        \/ removeGroupWriteGroups(c)
        \/ updateGroup(c, Group("B", "renamed", RootGroupId))
        \/ CallWriteCompletes(c)

SpecRace == InitRace /\ [][NextRace]_vars

(***************************************************************************)
(* Properties of the operations called without awaiting one another        *)
(* (checked under SpecRace)                                                *)
(***************************************************************************)
\* the layer a scope names
LayerOfScope(scope) ==
    CASE scope = "user" -> Global
      [] scope = "workspace" -> Workspace

\* the arrays an operation is to write: <<section, layer>>
TargetsOf(call) ==
    CASE call.op = "addConnection" ->
            {<<connectionsArrayName, LayerOfScope(call.arg.scope)>>}
      [] call.op \in {"removeConnection", "updateConnection"} ->
            {<<connectionsArrayName, Global>>}
      [] call.op = "addGroup" ->
            {<<connectionGroupsArrayName, LayerOfScope(call.arg.scope)>>}
      [] call.op = "updateGroup" ->
            {<<connectionGroupsArrayName, Global>>}
      [] call.op = "removeGroup" ->
            {<<connectionsArrayName, Global>>, <<connectionGroupsArrayName, Global>>}
      [] OTHER -> {}

\* the call that issued a write
IssuerOf(w) == CHOOSE c \in CallIds : CallName(c) = w.by

\* C24: every write an operation issues is of an array and a layer it
\* targets, and a stored array changes only when such a write takes effect:
\* with scope "user" no workspace or workspace-folder value changes, with
\* scope "workspace" no global value; removeConnection, updateConnection,
\* removeGroup and updateGroup change global values only; the connection
\* operations never write the groups, addGroup and updateGroup never the
\* connections.
C24_WritesOnlyTarget ==
    [][/\ \A i \in DOMAIN inflight' :
             <<inflight'[i].section, inflight'[i].target>>
                 \in TargetsOf(calls'[IssuerOf(inflight'[i])])
       /\ \A s \in Sections, l \in Layers :
             settings'[s][l] # settings[s][l] =>
                 /\ inflight # <<>>
                 /\ Head(inflight).section = s
                 /\ Head(inflight).target = l
                 /\ inflight' = Tail(inflight)]_vars

\* C24 witness: addConnection and addGroup with scope "workspace" have
\* returned, the workspace values of both arrays have changed, and the
\* global and the workspace-folder values are as they were
C24_Witness ==
    /\ calls[1].op = "addConnection" /\ calls[1].arg.scope = "workspace"
    /\ calls[2].op = "addGroup" /\ calls[2].arg.scope = "workspace"
    /\ \A c \in {1, 2} : calls[c].pc = "returned"
    /\ \A s \in Sections :
          /\ settings[s][Workspace] # atRunStart[s][Workspace]
          /\ settings[s][Global] = atRunStart[s][Global]
          /\ settings[s][WorkspaceFolder] = atRunStart[s][WorkspaceFolder]

(***************************************************************************)
(* populateMissingConnectionIds called on its own                          *)
(***************************************************************************)
\* the profiles it is called with: the id and the groupId undefined, empty
\* or given
PopulateInputs ==
    {Profile(id, groupId) : id \in {Undef, Empty, "c1"},
                            groupId \in {Undef, Empty, RootGroupId, "A"}}

InitPopulate ==
    /\ settings = MkSettings(<<>>, <<>>, <<>>, <<>>, <<>>, <<>>)
    /\ guid = 0
    /\ run = 1
    /\ initPc = "done"
    /\ initialized = TRUE
    /\ resolveCalls = 1
    /\ inflight = <<>>
    /\ calls = [c \in CallIds |-> IdleCall]
    /\ hasDisplayedMissingIdError = FALSE
    /\ log = <<>>
    /\ atRunStart = settings
    /\ NoQueryRunners

\* a call of the public method: it back-fills the profile in place (loc keeps
\* the profile as it is left) and returns whether it modified it
populateMissingConnectionIdsCall(c, profile) ==
    /\ NotYetCalled(c)
    /\ LET r == populateMissingConnectionIds(profile, guid)
       IN  /\ calls' = [calls EXCEPT ![c] =
                 Return([Start(c, "populateMissingConnectionIds", [profile |-> profile])
                            EXCEPT !.loc = [profile |-> r.profile]],
                        IF r.modified THEN "true" ELSE "false")]
           /\ guid' = r.guid
    /\ UNCHANGED <<settings, inflight, instVars, hasDisplayedMissingIdError, log,
                   queryRunnerVars>>

NextPopulate ==
    \E c \in CallIds, profile \in PopulateInputs :
        populateMissingConnectionIdsCall(c, profile)

SpecPopulate == InitPopulate /\ [][NextPopulate]_vars

\* C25: populateMissingConnectionIds leaves the profile with an id and a
\* groupId (neither undefined); the groupId is ROOT when it was undefined and
\* as given otherwise; an id that was given is kept and one that was
\* undefined is generated afresh; nothing else changes; and it returns true
\* exactly when it changed the id or the groupId.
C25_PopulateBackfills ==
    \A c \in CallIds :
        (calls[c].op = "populateMissingConnectionIds" /\ calls[c].pc = "returned") =>
            LET given == calls[c].arg.profile
                left == calls[c].loc.profile
            IN  /\ left.id # Undef /\ left.groupId # Undef
                /\ left.groupId = IF given.groupId = Undef THEN RootGroupId
                                  ELSE given.groupId
                /\ given.id # Undef => left.id = given.id
                /\ given.id = Undef =>
                      /\ left.id \notin {Empty, "c1"}
                      /\ \A d \in CallIds :
                            (d # c /\ calls[d].pc = "returned"
                             /\ calls[d].arg.profile.id = Undef) =>
                                calls[d].loc.profile.id # left.id
                /\ left = [given EXCEPT !.id = left.id, !.groupId = left.groupId]
                /\ (calls[c].result = "true") <=>
                      (left.id # given.id \/ left.groupId # given.groupId)
                /\ calls[c].result \in {"true", "false"}

\* C25 witness: a profile without id and groupId was back-filled with a
\* generated id and the ROOT group, one with only the groupId undefined got
\* the ROOT group and kept its empty id, both reported as modified
C25_Witness ==
    /\ calls[1].op = "populateMissingConnectionIds" /\ calls[1].pc = "returned"
    /\ calls[1].arg.profile = Profile(Undef, Undef)
    /\ calls[1].loc.profile = Profile(Guid(1), RootGroupId)
    /\ calls[1].result = "true"
    /\ calls[2].op = "populateMissingConnectionIds" /\ calls[2].pc = "returned"
    /\ calls[2].arg.profile = Profile(Empty, Undef)
    /\ calls[2].loc.profile = Profile(Empty, RootGroupId)
    /\ calls[2].result = "true"

(***************************************************************************)
(* Failing settings writes: setConfiguration rejects, and the `await` of   *)
(* the write throws in the task that issued it                             *)
(***************************************************************************)
BackendFailure == "BackendFailure"

\* the oldest write in flight, issued by call c, fails: nothing is stored,
\* and the rejection leaves the operation through its `await` (or through
\* the promise it returned) to the caller
CallWriteFails(c) ==
    /\ inflight # <<>>
    /\ Head(inflight).by = CallName(c)
    /\ log' = Append(log, CallLog(c, "failed", Head(inflight).section,
                                  Head(inflight).target))
    /\ inflight' = Tail(inflight)
    /\ calls' = [calls EXCEPT ![c] = Reject(@, BackendFailure)]
    /\ UNCHANGED <<settings, guid, instVars, hasDisplayedMissingIdError, queryRunnerVars>>

\* the oldest write in flight, issued by initialize(), fails: the repair pass
\* throws, initialize() rejects without reaching this.initialized.resolve(),
\* and the constructor, which called it with `void`, drops the rejection
InitWriteFails ==
    /\ inflight # <<>>
    /\ Head(inflight).by = "init"
    /\ log' = Append(log, LogEntry("init", "failed", Head(inflight).section,
                                   Head(inflight).target))
    /\ inflight' = Tail(inflight)
    /\ initPc' = "failed"
    /\ UNCHANGED <<settings, guid, run, initialized, resolveCalls, callVars, atRunStart,
                   queryRunnerVars>>

\* global stores: one the repair passes leave alone, one in which the group
\* pass writes, one in which the profile pass writes
FailStores ==
    {<<<<Group("A", "grp", RootGroupId)>>, <<Profile("c1", "A")>>>>,
     <<<<Group("A", "grp", Undef)>>, <<Profile("c1", "A")>>>>,
     <<<<Group("A", "grp", RootGroupId)>>, <<Profile(Undef, "A")>>>>}

InitFail ==
    /\ \E store \in FailStores :
         settings = MkSettings(store[1], store[2], <<>>, <<>>, <<>>, <<>>)
    /\ guid = 0
    /\ run = 1
    /\ initPc = "groupPass"
    /\ initialized = FALSE
    /\ resolveCalls = 0
    /\ inflight = <<>>
    /\ calls = [c \in CallIds |-> IdleCall]
    /\ hasDisplayedMissingIdError = FALSE
    /\ log = <<>>
    /\ atRunStart = settings
    /\ NoQueryRunners

NextFail ==
    \/ assignConnectionGroupMissingIds
    \/ assignConnectionMissingIds
    \/ ResolveInitialized
    \/ InitWriteCompletes
    \/ InitWriteFails
    \/ \E c \in CallIds :
          \/ NoCallPending /\ getConnections(c, FALSE)
          \/ NoCallPending /\ addConnection(c, RaceProfile, "user")
          \/ NoCallPending /\ removeConnection(c, Profile(Undef, Undef))
          \/ NoCallPending /\ updateConnection(c, Profile("c1", RootGroupId))
          \/ getConnectionsResume(c)
          \/ getConnectionsFilterGroups(c)
          \/ removeConnectionWrite(c)
          \/ updateConnectionWrite(c)
          \/ NoCallPending /\ addGroup(c, RaceGroup, "user")
          \/ NoCallPending /\ removeGroup(c, "A", "move")
          \/ removeGroupWriteGroups(c)
          \/ NoCallPending /\ updateGroup(c, Group("A", "renamed", RootGroupId))
          \/ CallWriteCompletes(c)
          \/ CallWriteFails(c)

SpecFail == InitFail /\ [][NextFail]_vars

(***************************************************************************)
(* Properties of failing writes (checked under SpecFail)                   *)
(***************************************************************************)
FailuresOf(by) == {i \in DOMAIN log : log[i].by = by /\ log[i].ev = "failed"}

\* a call that waits for `initialized`, which initialize() can no longer
\* resolve: it is never resumed
LeftWaiting(c) == calls[c].pc = "awaitInit" /\ initPc = "failed"

\* C26 as stated: when a write of an operation has failed, the operation has
\* rejected with that failure and has issued no write since (no retry); and
\* no caller is left without an outcome, also when the write that failed was
\* one of initialize().
C26_Original ==
    /\ \A c \in CallIds :
          FailuresOf(CallName(c)) # {} =>
              /\ calls[c].pc = "rejected"
              /\ calls[c].result = BackendFailure
              /\ \A i \in FailuresOf(CallName(c)), j \in DOMAIN log :
                    j > i => log[j].by # CallName(c)
    /\ \A i \in FailuresOf("init"), j \in DOMAIN log : j > i => log[j].by # "init"
    /\ \A c \in CallIds : ~LeftWaiting(c)

\* call c read the array of section s at log position i and issued its write
\* of that array at position j
ReadThenWrite(c, s, i, j) ==
    /\ i < j
    /\ log[i].by = CallName(c) /\ log[i].ev = "read" /\ log[i].section = s
    /\ log[j].by = CallName(c) /\ log[j].ev = "write" /\ log[j].section = s

\* C27 as stated: between the read of the array a mutating operation
\* modifies and the moment it issues its write of that array, no other
\* operation runs (nothing but the operation's own steps is recorded).
C27_Original ==
    \A c \in CallIds, s \in Sections :
        \A i, j \in DOMAIN log :
            ReadThenWrite(c, s, i, j) =>
                \A k \in i..j : log[k].by = CallName(c)

\* calls r and a are a removeConnection and an addConnection to the global
\* profiles, and no other call has been made
RemoveAndAdd(r, a) ==
    /\ calls[r].op = "removeConnection"
    /\ calls[a].op = "addConnection" /\ calls[a].arg.scope = "user"
    /\ \A e \in CallIds \ {r, a} : calls[e].pc = "idle"

\* where in the log call c read the global profiles, and where its write of
\* them took effect
ConnsReadAt(c) ==
    {i \in DOMAIN log : /\ log[i].by = CallName(c) /\ log[i].ev = "read"
                        /\ log[i].section = connectionsArrayName
                        /\ log[i].target = Global}
ConnsWrittenAt(c) ==
    {i \in DOMAIN log : /\ log[i].by = CallName(c) /\ log[i].ev = "written"
                        /\ log[i].section = connectionsArrayName
                        /\ log[i].target = Global}

\* call y has returned, its write having taken effect only after both calls
\* had read, and the write of call x, the later one, takes effect in this step
LaterWriteLands(x, y) ==
    /\ calls[y].pc = "returned" /\ calls[y].result \in {"true", "void"}
    /\ calls[x].pc \in {"writing", "removedWrite"}
    /\ calls'[x].pc = "returned"
    /\ \A w \in ConnsWrittenAt(y) :
          \A i \in ConnsReadAt(x) \cup ConnsReadAt(y) : i < w

HoldsSame(profiles, p) == \E k \in DOMAIN profiles : isSameProfile(profiles[k], p)

\* C28: when removeConnection(p) and addConnection(q) on the global profiles
\* are under way together and both read before either write takes effect,
\* both return successfully and the array is left as the later write has
\* it: p is still stored when the write of addConnection is the later one,
\* and q is not stored when the write of removeConnection is.
C28_LostUpdate ==
    [][\A r, a \in CallIds :
          RemoveAndAdd(r, a) =>
              LET p == calls[r].arg.profile
                  q == calls[a].loc.profile
                  left == settings'[connectionsArrayName][Global]
              IN  /\ LaterWriteLands(a, r) =>
                        /\ calls'[a].result = "void"
                        /\ left = Head(inflight).value
                        /\ HoldsSame(left, p)
                        /\ HoldsSame(left, q)
                  /\ LaterWriteLands(r, a) =>
                        /\ calls'[r].result = "true"
                        /\ left = Head(inflight).value
                        /\ ~HoldsSame(left, q)
                        /\ ~HoldsSame(left, p)]_vars

\* C28 witness: removeConnection (called first) and addConnection have both
\* read the global profiles before either write took effect, both have
\* returned, the write of removeConnection took effect last, and the added
\* profile is not stored
C28_Witness ==
    /\ RemoveAndAdd(1, 2)
    /\ calls[1].pc = "returned" /\ calls[1].result = "true"
    /\ calls[2].pc = "returned" /\ calls[2].result = "void"
    /\ \A w \in ConnsWrittenAt(1) \cup ConnsWrittenAt(2) :
          \A i \in ConnsReadAt(1) \cup ConnsReadAt(2) : i < w
    /\ \A w1 \in ConnsWrittenAt(1), w2 \in ConnsWrittenAt(2) : w2 < w1
    /\ ~HoldsSame(settings[connectionsArrayName][Global], calls[2].loc.profile)
    /\ settings[connectionsArrayName][Global] = <<RaceConns[2]>>

(***************************************************************************)
(* Properties of the writes of removeGroup (checked under SpecRemoveGroup, *)
(* where atRunStart is the store the call found)                           *)
(***************************************************************************)
\* where in the log call c has an event ev on the global array of section s
EventsOf(c, ev, s) ==
    {i \in DOMAIN log : /\ log[i].by = CallName(c) /\ log[i].ev = ev
                        /\ log[i].section = s /\ log[i].target = Global}

\* C29: when removeGroup has returned true, it has issued exactly one write
\* of the global groups and no write outside the global scope; it has issued
\* a write of the global connections, one, exactly when a connection was
\* deleted or re-pointed to ROOT; and that write took effect before the
\* groups write was issued.
C29_RemoveGroupWrites ==
    \A c \in CallIds :
        (/\ calls[c].op = "removeGroup"
         /\ calls[c].pc = "returned"
         /\ calls[c].result = "true") =>
            /\ Cardinality(EventsOf(c, "write", connectionGroupsArrayName)) = 1
            /\ Cardinality(WritesOf(c)) =
                  IF GlobalConns # ConnsAtStart THEN 2 ELSE 1
            /\ Cardinality(EventsOf(c, "write", connectionsArrayName)) =
                  IF GlobalConns # ConnsAtStart THEN 1 ELSE 0
            /\ \A i \in EventsOf(c, "write", connectionsArrayName) :
                  \E j \in EventsOf(c, "written", connectionsArrayName) :
                      /\ i < j
                      /\ \A k \in EventsOf(c, "write", connectionGroupsArrayName) : j < k

\* C29 witness: removeGroup("A", "delete") on ROOT -> A -> B with a
\* connection in B and one in ROOT has returned true after a write of the
\* connections and then one of the groups
C29_Witness ==
    /\ GroupsAtStart = <<Group("A", "grp", RootGroupId), Group("B", "grp", "A")>>
    /\ ConnsAtStart = <<ProfileAt(1, "B"), ProfileAt(2, RootGroupId)>>
    /\ calls[1].op = "removeGroup" /\ calls[1].arg = [id |-> "A", contentAction |-> "delete"]
    /\ calls[1].pc = "returned" /\ calls[1].result = "true"
    /\ GlobalConns = <<ProfileAt(2, RootGroupId)>>
    /\ Cardinality(WritesOf(1)) = 2

\* every parentId and every groupId is the ROOT id or the id of a group of
\* the array
RefsValid(groups, conns) ==
    LET ids == {RootGroupId} \cup {g.id : g \in Range(groups)}
    IN  /\ \A g \in Range(groups) : g.parentId \in ids
        /\ \A p \in Range(conns) : p.groupId \in ids

\* C30: when every parentId and groupId of the global store names ROOT or a
\* stored global group before a removeGroup call, the same holds in every
\* state of the call: between its connections write and its groups write,
\* and when it has ended.
C30_RefsStayValid ==
    RefsValid(GroupsAtStart, ConnsAtStart) => RefsValid(GlobalGroups, GlobalConns)

\* C30 witness: removeGroup("A", "delete") on ROOT -> A -> B -> C with a
\* connection in B is between its two writes: the connection is gone and the
\* three groups are still stored
C30_Witness ==
    /\ GroupsAtStart = <<Group("A", "grp", RootGroupId), Group("B", "grp", "A"),
                         Group("C", "grp", "B")>>
    /\ ConnsAtStart = <<ProfileAt(1, "B")>>
    /\ calls[1].op = "removeGroup" /\ calls[1].arg = [id |-> "A", contentAction |-> "delete"]
    /\ calls[1].pc = "groupsWrite"
    /\ GlobalConns = <<>>
    /\ GlobalGroups = GroupsAtStart
    /\ inflight # <<>>

\* removeGroup call c is rejected in this step by a settings write that failed
RemoveGroupFails(c) ==
    /\ calls[c].op = "removeGroup"
    /\ calls[c].pc # "rejected"
    /\ calls'[c].pc = "rejected"
    /\ calls'[c].result = BackendFailure

\* C31 as stated: when a removeGroup call rejects because a settings write
\* failed, the global connections and the global groups are the arrays the
\* call read when it was made (nothing of the deletion or move is stored).
C31_Original ==
    [][\A c \in CallIds :
          RemoveGroupFails(c) =>
              /\ GlobalConns' = calls[c].loc.connections
              /\ GlobalGroups' = calls[c].loc.groups]_vars

\* removeConnection call c returns in this step
RemoveConnectionReturns(c) ==
    /\ calls[c].op = "removeConnection"
    /\ calls[c].pc # "returned"
    /\ calls'[c].pc = "returned"

\* C32 as stated: when removeConnection(p) returns, true or false, every
\* profile stored in the global array that is not the same as p is still
\* stored there, also one in a group that is not stored or one without
\* connection information.
C32_Original ==
    [][\A c \in CallIds :
          RemoveConnectionReturns(c) =>
              \A q \in Range(GlobalConns) :
                  ~isSameProfile(q, calls[c].arg.profile) => q \in Range(GlobalConns')]_vars

(***************************************************************************)
(* The read operations, called without awaiting one another while          *)
(* initialize() runs and while a write of addGroup is in flight            *)
(***************************************************************************)
\* mutant of GetGroupByIdResult: the ROOT id is looked up like any other
GetGroupByIdResult_NoRootCase(id) ==
    FindById(getGroupsFromSettings(Global), id)

\* what getGroupById returns, in a list that is empty for undefined
GetGroupByIdResult(id) ==
    IF id = RootGroupId THEN <<getRootGroup>>
    ELSE FindById(getGroupsFromSettings(Global), id)

\* getGroupById is synchronous and does not await `initialized`
getGroupById(c, id) ==
    /\ Constructed
    /\ NotYetCalled(c)
    /\ calls' = [calls EXCEPT ![c] =
          Return(Start(c, "getGroupById", [id |-> id]), GetGroupByIdResult(id))]
    /\ log' = IF id = RootGroupId THEN log
              ELSE Append(log, CallLog(c, "read", connectionGroupsArrayName, Global))
    /\ UNCHANGED <<settings, inflight, guid, instVars, hasDisplayedMissingIdError,
                   queryRunnerVars>>

\* a call of getRootGroup: synchronous, it reads nothing
getRootGroupCall(c) ==
    /\ Constructed
    /\ NotYetCalled(c)
    /\ calls' = [calls EXCEPT ![c] =
          Return(Start(c, "getRootGroup", [none |-> TRUE]), <<getRootGroup>>)]
    /\ UNCHANGED <<settings, inflight, guid, instVars, hasDisplayedMissingIdError, log,
                   queryRunnerVars>>

\* global groups: with a persisted ROOT-id entry and a group the group pass
\* repairs; with a persisted ROOT-id entry between two groups under one id
LookupGroupStores ==
    {<<RootEntry("mine"), Group("A", "grp", Undef)>>,
     <<Group("A", "grp", RootGroupId), RootEntry("mine"),
       Group("A", "dup", RootGroupId)>>}

\* global profiles: one listed, one with the sample server (no connection
\* information), one in a group that is not stored
LookupConns ==
    <<Conn("c1", RootGroupId, "beta", "srv", Undef),
      Conn("c4", RootGroupId, "alpha", SampleServerName, Undef),
      Conn("c3", "X", "alpha", "srv", Undef)>>

LookupIds == {RootGroupId, "A", "B"}
LookupGroup == Group("B", "new", "A")

InitLookup ==
    /\ \E gGroups \in LookupGroupStores :
         settings = MkSettings(gGroups, LookupConns,
                               <<Group("W", "grp", RootGroupId)>>,
                               <<Conn("w1", "X", "beta", "srv", Undef)>>,
                               <<Group("F", "grp", RootGroupId)>>,
                               <<Conn("w2", RootGroupId, "alpha", "srv", Undef)>>)
    /\ guid = 0
    /\ run = 1
    /\ initPc = "groupPass"
    /\ initialized = FALSE
    /\ resolveCalls = 0
    /\ inflight = <<>>
    /\ calls = [c \in CallIds |-> IdleCall]
    /\ hasDisplayedMissingIdError = FALSE
    /\ log = <<>>
    /\ atRunStart = settings
    /\ NoQueryRunners

NextLookup ==
    \/ assignConnectionGroupMissingIds
    \/ assignConnectionMissingIds
    \/ ResolveInitialized
    \/ InitWriteCompletes
    \/ \E c \in CallIds :
          \/ \E alsoGetFromWorkspace \in BOOLEAN : getConnections(c, alsoGetFromWorkspace)
          \/ getConnectionById(c, "c3")
          \/ \E location \in {Global, Workspace} : getGroups(c, location)
          \/ \E id \in LookupIds : getGroupById(c, id)
          \/ getRootGroupCall(c)
          \/ getConnectionsResume(c)
          \/ getConnectionsFilterGroups(c)
          \/ getConnectionByIdFind(c)
          \/ getGroupsResume(c)
          \/ addGroup(c, LookupGroup, "user")
          \/ CallWriteCompletes(c)

SpecLookup == InitLookup /\ [][NextLookup]_vars

(***************************************************************************)
(* Properties of the read operations (checked under SpecLookup)            *)
(***************************************************************************)
ReadOperations ==
    {"getConnections", "getConnectionById", "getGroups", "getGroupById", "getRootGroup"}

\* call c, of a read operation, is made or goes on in this step
ReadStep(c) ==
    /\ calls'[c] # calls[c]
    /\ calls'[c].op \in ReadOperations

\* C33: no step of getConnections, getConnectionById, getGroups, getGroupById
\* or getRootGroup issues a settings write or changes a stored array, in
\* either scope, whatever the state it is made in; the profiles and groups a
\* read leaves out of its result stay stored.
C33_ReadsNeverWrite ==
    [][\A c \in CallIds :
          ReadStep(c) =>
              /\ settings' = settings
              /\ inflight' = inflight
              /\ \A i \in DOMAIN log' : i > Len(log) => log'[i].ev # "write"]_vars

\* getConnections(true) of an initialized instance has returned without the
\* profile that lacks connection information and without the ones in a
\* group that is not stored, and all of them are still stored; getGroups has
\* returned without the persisted ROOT-id entry, which is still stored
C33_Witness ==
    /\ initialized
    /\ calls[1].op = "getConnections" /\ calls[1].pc = "returned"
    /\ calls[1].arg.alsoGetFromWorkspace
    /\ ~calls[1].early
    /\ Len(calls[1].result) = 2
    /\ Len(StoredConnsOf(Global)) = 3 /\ Len(StoredConnsOf(Workspace)) = 2
    /\ calls[2].op = "getGroups" /\ calls[2].pc = "returned"
    /\ \E g \in Range(GlobalGroups) : g.id = RootGroupId /\ g \notin Range(calls[2].result)

\* getGroupById call c is made, and returns, in this step
GetGroupByIdReturns(c) ==
    /\ calls[c].pc = "idle"
    /\ calls'[c].op = "getGroupById"

\* C37: on an initialized instance getGroupById(id) returns the first group
\* with that id of the list getGroups() returns for the global scope, and
\* undefined exactly when that list holds none; for the ROOT id that is the
\* synthetic ROOT group.
C37_GetGroupByIdAgrees ==
    [][\A c \in CallIds :
          (GetGroupByIdReturns(c) /\ initialized) =>
              /\ calls'[c].pc = "returned"
              /\ calls'[c].result = FindById(GetGroupsResult(Global), calls'[c].arg.id)
              /\ calls'[c].arg.id = RootGroupId => calls'[c].result = <<getRootGroup>>]_vars

\* on an initialized instance whose global groups hold two groups under the
\* id A and a persisted ROOT-id entry, getGroupById('A') has returned the
\* first of the two and getGroupById(ROOT) the synthetic ROOT group
C37_Witness ==
    /\ initialized
    /\ ~calls[1].early
    /\ calls[1].op = "getGroupById" /\ calls[1].arg.id = "A"
    /\ calls[1].result = <<Group("A", "grp", RootGroupId)>>
    /\ calls[2].op = "getGroupById" /\ calls[2].arg.id = RootGroupId
    /\ calls[2].result = <<getRootGroup>>
    /\ GlobalGroups = <<Group("A", "grp", RootGroupId), RootEntry("mine"),
                        Group("A", "dup", RootGroupId)>>

(***************************************************************************)
(* The operations that await `initialized`, under fair scheduling: a       *)
(* continuation that can run does run, and a write that was issued is      *)
(* answered, with success or with a failure                                *)
(***************************************************************************)
NextLive ==
    \/ assignConnectionGroupMissingIds
    \/ assignConnectionMissingIds
    \/ ResolveInitialized
    \/ InitWriteCompletes
    \/ InitWriteFails
    \/ \E c \in CallIds :
          \/ NoCallPending /\ getConnections(c, TRUE)
          \/ NoCallPending /\ getConnectionById(c, "c1")
          \/ NoCallPending /\ getGroups(c, Global)
          \/ NoCallPending /\ removeConnection(c, Profile(Undef, Undef))
          \/ NoCallPending /\ updateConnection(c, Profile("c1", RootGroupId))
          \/ getConnectionsResume(c)
          \/ getConnectionsFilterGroups(c)
          \/ getConnectionByIdFind(c)
          \/ getGroupsResume(c)
          \/ removeConnectionWrite(c)
          \/ updateConnectionWrite(c)
          \/ CallWriteCompletes(c)
          \/ CallWriteFails(c)

\* the event loop runs every continuation that is ready and the settings
\* backend answers every write; nothing obliges a caller to make a call
FairLive ==
    /\ WF_vars(assignConnectionGroupMissingIds)
    /\ WF_vars(assignConnectionMissingIds)
    /\ WF_vars(ResolveInitialized)
    /\ WF_vars(InitWriteCompletes \/ InitWriteFails)
    /\ \A c \in CallIds :
          /\ WF_vars(getConnectionsResume(c))
          /\ WF_vars(getConnectionsFilterGroups(c))
          /\ WF_vars(getConnectionByIdFind(c))
          /\ WF_vars(getGroupsResume(c))
          /\ WF_vars(removeConnectionWrite(c))
          /\ WF_vars(updateConnectionWrite(c))
          /\ WF_vars(CallWriteCompletes(c) \/ CallWriteFails(c))

SpecLive == InitFail /\ [][NextLive]_vars /\ FairLive

AwaitsInitialized ==
    {"getConnections", "getConnectionById", "getGroups", "removeConnection",
     "updateConnection"}

\* C34 as stated: every call of getConnections, getConnectionById, getGroups,
\* removeConnection or updateConnection eventually resolves or rejects, also
\* when a write of a repair pass of initialize() has failed.
C34_Original ==
    \A c \in CallIds :
        (calls[c].op \in AwaitsInitialized) ~> (calls[c].pc \in {"returned", "rejected"})

(***************************************************************************)
(* Sequences of addGroup, updateGroup and removeGroup on an initialized    *)
(* instance whose store the repair passes leave as it is                   *)
(***************************************************************************)
\* repaired global groups: every parentId is ROOT or the id of a stored group
\* and no group is its own ancestor
TreeStores ==
    {<<Group("A", "grp", RootGroupId)>>,
     <<Group("A", "grp", RootGroupId), Group("B", "grp", "A")>>}

\* groups to add: under a stored group, and under itself
TreeNewGroups == {Group("C", "new", "A"), Group("C", "new", "C")}
\* groups to update: renamed, re-parented under its child, under itself
TreeUpdatedGroups ==
    {Group("A", "renamed", RootGroupId), Group("A", "grp", "B"), Group("A", "grp", "A")}

InitTree ==
    /\ \E gGroups \in TreeStores :
         settings = MkSettings(gGroups, <<Profile("c1", "A")>>, <<>>, <<>>, <<>>, <<>>)
    /\ guid = 0
    /\ run = 1
    /\ initPc = "done"
    /\ initialized = TRUE
    /\ resolveCalls = 1
    /\ inflight = <<>>
    /\ calls = [c \in CallIds |-> IdleCall]
    /\ hasDisplayedMissingIdError = FALSE
    /\ log = <<>>
    /\ atRunStart = settings
    /\ NoQueryRunners

NextTree ==
    \E c \in CallIds :
        \/ NoCallPending /\ \E group \in TreeNewGroups : addGroup(c, group, "user")
        \/ NoCallPending /\ \E group \in TreeUpdatedGroups : updateGroup(c, group)
        \/ NoCallPending /\ \E id \in {"A", "B", "C"}, contentAction \in {"delete", "move"} :
                                removeGroup(c, id, contentAction)
        \/ removeGroupWriteGroups(c)
        \/ CallWriteCompletes(c)

SpecTree == InitTree /\ [][NextTree]_vars

\* removeGroup(id, "delete"), call c, is made in this step
RemoveGroupDeleteCalled(c) ==
    /\ calls[c].pc = "idle"
    /\ calls'[c].op = "removeGroup"
    /\ calls'[c].arg.contentAction = "delete"

\* C35 as stated: on global groups reached from a repaired store through
\* addGroup, updateGroup and removeGroup, removeGroup(id, "delete") collects
\* the subgroup ids without running out of stack: it returns false or goes on
\* to its writes.
C35_Original ==
    [][\A c \in CallIds :
          RemoveGroupDeleteCalled(c) =>
              ~(calls'[c].pc = "rejected" /\ calls'[c].result = StackOverflow)]_vars

\* addConnection or addGroup with scope "workspace", call c, is made in this
\* step and issues its write
AddsToWorkspace(c) ==
    /\ calls[c].pc = "idle"
    /\ calls'[c].op \in {"addConnection", "addGroup"}
    /\ calls'[c].arg.scope = "workspace"
    /\ Len(inflight') = Len(inflight) + 1

\* the record call c adds, as stored
AddedBy(call) == IF call.op = "addConnection" THEN call.loc.profile ELSE call.loc.group

\* C36 as stated: the array addConnection or addGroup with scope "workspace"
\* writes to the workspace layer holds only records that were in the
\* workspace layer and the new record; no record of the workspace-folder
\* layer is copied into it.
C36_Original ==
    [][\A c \in CallIds :
          AddsToWorkspace(c) =>
              LET w == inflight'[Len(inflight')]
              IN  /\ w.target = Workspace
                  /\ \A k \in DOMAIN w.value :
                        \/ w.value[k] \in Range(settings[w.section][Workspace])
                        \/ (k = Len(w.value) /\ w.value[k] = AddedBy(calls'[c]))]_vars

(***************************************************************************)
(* QueryRunnerManager and the query runner explorer                        *)
(***************************************************************************)
MaxManagerCalls == 3    \* calls made on the QueryRunnerManager in one behaviour

RunnerIds == {"q1", "q2"}
RunnerSteps == {"s1", "s2"}

\* a QueryRunnerInfo: query, duration and error are carried along untouched
\* and left out
QueryRunnerInfo(id, status, steps) == [id |-> id, status |-> status, steps |-> steps]
\* one the caller built without steps
QueryRunnerInfoNoSteps(id, status) == [id |-> id, status |-> status]

RunnerInfos ==
    {QueryRunnerInfo(id, status, steps) :
        id \in RunnerIds, status \in {"Running", "Success"}, steps \in {<<>>, <<"s1">>}}
    \cup {QueryRunnerInfoNoSteps(id, "Running") : id \in RunnerIds}

\* Map.prototype.has, get, set and delete on a map kept as the sequence of
\* its entries in insertion order
MapHas(map, key) == \E k \in DOMAIN map : map[k].key = key
MapGet(map, key) == map[CHOOSE k \in DOMAIN map : map[k].key = key].value
MapSet(map, key, value) ==
    IF MapHas(map, key)
    THEN [k \in DOMAIN map |-> IF map[k].key = key THEN [key |-> key, value |-> value]
                               ELSE map[k]]
    ELSE Append(map, [key |-> key, value |-> value])
MapDelete(map, key) == SelectSeq(map, LAMBDA e : e.key # key)

\* Array.from(map.values())
getAllOf(map) == [k \in DOMAIN map |-> map[k].value]

\* QueryRunnerManager.getAll
getAll == getAllOf(queryRunners)

\* this._onDidChange.fire() once the map is `map`: the event is delivered
\* before fire() returns, to the listener registerQueryRunnerExplorer
\* subscribed, which hands manager.getAll() to provider.refresh
Fire(map) ==
    /\ changeEvents' = changeEvents + 1
    /\ treeQueryRunners' = IF explorerRegistered THEN getAllOf(map) ELSE treeQueryRunners

ManagerCall(op, id, arg) == [op |-> op, id |-> id, arg |-> arg]

configVars == <<settings, guid, run, initPc, initialized, resolveCalls, inflight,
                calls, hasDisplayedMissingIdError, log, atRunStart>>

\* registerQueryRunnerExplorer: the provider is built, loaded with getAll()
\* and subscribed to onDidChange
registerQueryRunnerExplorer ==
    /\ ~explorerRegistered
    /\ explorerRegistered' = TRUE
    /\ treeQueryRunners' = getAll
    /\ UNCHANGED <<queryRunners, changeEvents, managerCalls, configVars>>

\* mutant of updateQueryRunner: the runner is stored and no event is fired
updateQueryRunner_Silent(info) ==
    /\ Len(managerCalls) < MaxManagerCalls
    /\ managerCalls' = Append(managerCalls, ManagerCall("updateQueryRunner", info.id, info))
    /\ queryRunners' = MapSet(queryRunners, info.id, info)
    /\ UNCHANGED <<changeEvents, treeQueryRunners, explorerRegistered, configVars>>

updateQueryRunner(info) ==
    /\ Len(managerCalls) < MaxManagerCalls
    /\ managerCalls' = Append(managerCalls, ManagerCall("updateQueryRunner", info.id, info))
    /\ queryRunners' = MapSet(queryRunners, info.id, info)
    /\ Fire(queryRunners')
    /\ UNCHANGED <<explorerRegistered, configVars>>

\* runner.steps is set (an array, empty or not, is truthy)
HasSteps(runner) == "steps" \in DOMAIN runner

\* mutant of StepsWith: the new step is put before the steps there are
StepsWith_Prepended(runner, step) ==
    IF HasSteps(runner) THEN <<step>> \o runner.steps ELSE <<step>>

\* runner.steps ? [...runner.steps, step] : [step]
StepsWith(runner, step) ==
    IF HasSteps(runner) THEN Append(runner.steps, step) ELSE <<step>>

appendStep(id, step) ==
    /\ Len(managerCalls) < MaxManagerCalls
    /\ managerCalls' = Append(managerCalls, ManagerCall("appendStep", id, step))
    /\ IF MapHas(queryRunners, id)
       THEN LET runner == MapGet(queryRunners, id)
            IN  /\ queryRunners' = MapSet(queryRunners, id,
                       [steps |-> StepsWith(runner, step)] @@ runner)
                /\ Fire(queryRunners')
       ELSE UNCHANGED <<queryRunners, changeEvents, treeQueryRunners>>
    /\ UNCHANGED <<explorerRegistered, configVars>>

removeQueryRunner(id) ==
    /\ Len(managerCalls) < MaxManagerCalls
    /\ managerCalls' = Append(managerCalls, ManagerCall("removeQueryRunner", id, Undef))
    /\ queryRunners' = MapDelete(queryRunners, id)
    /\ Fire(queryRunners')
    /\ UNCHANGED <<explorerRegistered, configVars>>

\* no ConnectionConfig is at work
InitManager ==
    /\ settings = MkSettings(<<>>, <<>>, <<>>, <<>>, <<>>, <<>>)
    /\ guid = 0
    /\ run = 1
    /\ initPc = "done"
    /\ initialized = TRUE
    /\ resolveCalls = 1
    /\ inflight = <<>>
    /\ calls = [c \in CallIds |-> IdleCall]
    /\ hasDisplayedMissingIdError = FALSE
    /\ log = <<>>
    /\ atRunStart = settings
    /\ NoQueryRunners

NextManager ==
    \/ registerQueryRunnerExplorer
    \/ \E info \in RunnerInfos : updateQueryRunner(info)
    \/ \E id \in RunnerIds, step \in RunnerSteps : appendStep(id, step)
    \/ \E id \in RunnerIds : removeQueryRunner(id)

SpecManager == InitManager /\ [][NextManager]_vars

(***************************************************************************)
(* Properties of the QueryRunnerManager (checked under SpecManager)        *)
(***************************************************************************)
\* C38: getAll() holds at most one entry per runner id, and once the
\* explorer is registered the list of its tree data provider is getAll()
\* (a change event is delivered, and the provider refreshed, before the call
\* that fired it returns, so none is pending between calls).
C38_OneEntryPerIdAndTreeInStep ==
    /\ \A i, j \in DOMAIN getAll : getAll[i].id = getAll[j].id => i = j
    /\ explorerRegistered => treeQueryRunners = getAll

\* the explorer was registered with one runner stored; since then that
\* runner was replaced or got a step, another was stored and one removed
C38_Witness ==
    /\ explorerRegistered
    /\ Len(managerCalls) >= 3
    /\ \E k \in DOMAIN managerCalls : managerCalls[k].op = "removeQueryRunner"
    /\ Len(getAll) = 1
    /\ treeQueryRunners = getAll

\* appendStep(id, step) is the call made in this step
AppendStepCalled(id, step) ==
    /\ Len(managerCalls') = Len(managerCalls) + 1
    /\ managerCalls'[Len(managerCalls')] = ManagerCall("appendStep", id, step)

\* the steps a runner holds (none when steps is not set)
StepsOf(runner) == IF HasSteps(runner) THEN runner.steps ELSE <<>>

\* C39: appendStep(id, step) for an id that is not registered leaves the
\* runners, their steps and the tree as they are and fires no change event;
\* for a registered id the runner keeps its place and its other fields, its
\* steps are the steps it had, in their order, followed by step, every other
\* runner is as before, and one change event is fired.
C39_AppendStepFrame ==
    [][\A id \in RunnerIds, step \in RunnerSteps :
          AppendStepCalled(id, step) =>
              IF \E k \in DOMAIN getAll : getAll[k].id = id
              THEN /\ DOMAIN getAll' = DOMAIN getAll
                   /\ \A k \in DOMAIN getAll :
                         IF getAll[k].id = id
                         THEN /\ getAll'[k].id = id
                              /\ getAll'[k].status = getAll[k].status
                              /\ getAll'[k].steps = StepsOf(getAll[k]) \o <<step>>
                         ELSE getAll'[k] = getAll[k]
                   /\ changeEvents' = changeEvents + 1
              ELSE /\ queryRunners' = queryRunners
                   /\ treeQueryRunners' = treeQueryRunners
                   /\ changeEvents' = changeEvents]_vars

\* appendStep was called for q2, which is not registered, and then for q1,
\* which is registered with one step: one event for updateQueryRunner and one
\* for the second appendStep, and q1 holds its step followed by the new one
C39_Witness ==
    /\ Len(managerCalls) = 3
    /\ managerCalls[2] = ManagerCall("appendStep", "q2", "s1")
    /\ managerCalls[3] = ManagerCall("appendStep", "q1", "s2")
    /\ changeEvents = 2
    /\ Len(getAll) = 1
    /\ getAll[1].id = "q1"
    /\ getAll[1].steps = <<"s1", "s2">>

====
